---- MODULE Spec2Model ----
(***************************************************************************)
(* Scene visual resolution of the true-crime video pipeline:               *)
(*   AssetManager (asset_manager.go), PollinationsFetcher (setup.sh),      *)
(*   ProofScraper (proof_scraper.go) and Assembler (pipeline.go).          *)
(* External calls (HTTP, ffmpeg, file I/O) are modelled by their possible  *)
(* outcomes, chosen nondeterministically.                                  *)
(***************************************************************************)
EXTENDS Integers, Sequences, FiniteSets, TLC

VARIABLES
    tags,        \* AssetManager.tags: clip filename -> tag list
    usageLog,    \* AssetManager.usageLog: runID -> filenames used (in memory)
    runID,       \* AssetManager.runID
    usedInRun,   \* AssetManager.usedInRun (set of filenames mapped to true)
    ledgerFile,  \* content of the file at cfg.Paths.ClipUsageLog
    returned,    \* history: paths returned by successful Picks of this AssetManager
    lastPick,    \* history: outcome of the most recent Pick call
    scenes,      \* script.Scenes
    pos,         \* Assembler.Run: loop index i (1-based), next scene to resolve
    runState,    \* Assembler.Run: "entered" | "running" | "ok" (returned nil) | "err"
    runErr,      \* Assembler.Run: which error was returned ("" if none)
    calls,       \* history: calls made by the latest loop iteration, with outcomes
    declared,    \* history: SceneType of every scene when Run was entered
    fetchIn,     \* PollinationsFetcher.Fetch: input (scene prompt, attempt outcomes)
    fetchOut,    \* PollinationsFetcher.Fetch: result and attempts made
    proofIn,     \* ProofScraper.FetchProofImage: input (scene, story, key, outcomes)
    proofOut,    \* ProofScraper.FetchProofImage: result and steps attempted
    render,      \* Renderer.Run: position, files in hand, calls made, result
    workers,     \* goroutines inside AssetManager.Pick: position and locals of each
    pipeline,    \* main: position, PipelineState fields, stages executed
    cx,          \* one scene resolved under a cancellable ctx: position, calls started
    clipIn,      \* prepareVideoClip: input (scene duration, clip length, probe outcome)
    clipOut,     \* prepareVideoClip: the ffmpeg request made and its output
    callIn,      \* one call of a helper that builds an ffmpeg request or a score: arguments
    callOut,     \* ... and what it built
    tts          \* generateSceneAudio: attempt counter, executions made, result

amVars    == <<tags, usageLog, runID, usedInRun, ledgerFile, returned, lastPick>>
runVars   == <<scenes, pos, runState, runErr, calls, declared>>
fetchVars == <<fetchIn, fetchOut>>
proofVars == <<proofIn, proofOut>>
restVars  == <<render, workers, pipeline, cx, clipIn, clipOut, callIn, callOut, tts>>
vars      == <<tags, usageLog, runID, usedInRun, ledgerFile, returned, lastPick,
               scenes, pos, runState, runErr, calls, declared,
               fetchIn, fetchOut, proofIn, proofOut,
               render, workers, pipeline, cx, clipIn, clipOut, callIn, callOut, tts>>

----------------------------------------------------------------------------
(* Bounds *)

MaxClips == 3
MaxScenes == 2
MaxStoryImages == 2
MaxPoolInRun == 1

----------------------------------------------------------------------------
(* Generic helpers *)

Range(s) == {s[k] : k \in DOMAIN s}

Perms(S) == {p \in [1..Cardinality(S) -> S] : \A a \in S : \E k \in DOMAIN p : p[k] = a}

----------------------------------------------------------------------------
(* AssetManager: asset_manager.go *)

\* strings.ToLower on the tag vocabulary of the model
ToLower(t) ==
    CASE t = "Dark" -> "dark"
      [] t = "Night" -> "night"
      [] t = "Tense" -> "tense"
      [] OTHER -> t

\* tags.json rows: the tag list of the k-th clip file
ClipTagTable == << <<"dark", "Night">>, <<"Dark", "tense">>, <<"street">>, <<>> >>

ClipTagsOf(k) == ClipTagTable[((k - 1) % Len(ClipTagTable)) + 1]

ClipFiles == 1..MaxClips

\* loadTagsJSON: the first k clip files are listed (k = 0 when tags.json is missing or empty)
TagMaps == {[f \in 1..k |-> ClipTagsOf(f)] : k \in 0..MaxClips}

\* scenes handed to Pick: AssetTags (may repeat a tag), Mood
SceneTagLists == { <<>>, <<"dark", "Dark">>, <<"night", "street">> }

Moods == {"tense", ""}

PickScenes == [AssetTags : SceneTagLists, Mood : Moods]

RECURSIVE CountRequired(_, _, _)
\* for _, req := range required { if clipTagSet[ToLower(req)] { score += 10 } }
CountRequired(required, n, clipTagSet) ==
    IF n = 0 THEN 0
    ELSE CountRequired(required, n - 1, clipTagSet)
         + (IF ToLower(required[n]) \in clipTagSet THEN 10 ELSE 0)

matchScore(required, clipTags, mood) ==
    LET clipTagSet == {ToLower(clipTags[k]) : k \in DOMAIN clipTags}
    IN  CountRequired(required, Len(required), clipTagSet)
        + (IF ToLower(mood) \in clipTagSet THEN 15 ELSE 0)

RECURSIVE InsertScored(_, _)
\* inner loop of sortScored: x moves left while its score is greater than its left neighbour's
InsertScored(s, x) ==
    IF s = <<>> THEN <<x>>
    ELSE LET last == s[Len(s)]
         IN  IF x.score > last.score
             THEN Append(InsertScored(SubSeq(s, 1, Len(s) - 1), x), last)
             ELSE Append(s, x)

\* sortScored: insertion sort by score, descending, stable
sortScoredNoop(s) == s

RECURSIVE SortPrefix(_, _)
SortPrefix(s, n) == IF n = 0 THEN <<>> ELSE InsertScored(SortPrefix(s, n - 1), s[n])

sortScored(s) == SortPrefix(s, Len(s))

\* the skip test of Pick's first loop: am.usedInRun[file]
IsUsedNever(used, file) == FALSE

IsUsed(used, file) == file \in used

RECURSIVE ScoreFiles(_, _, _, _, _)
\* first loop of Pick over am.tags, in map iteration order `order`
ScoreFiles(order, n, tagMap, used, scene) ==
    IF n = 0 THEN <<>>
    ELSE LET file == order[n]
             rest == ScoreFiles(order, n - 1, tagMap, used, scene)
             score == matchScore(scene.AssetTags, tagMap[file], scene.Mood)
         IN  IF IsUsed(used, file) THEN rest
             ELSE IF score >= 0 THEN Append(rest, [file |-> file, score |-> score])
             ELSE rest

RECURSIVE UnusedZero(_, _, _)
\* second loop of Pick: every unused file, scored 0
UnusedZero(order, n, used) ==
    IF n = 0 THEN <<>>
    ELSE LET rest == UnusedZero(order, n - 1, used)
         IN  IF order[n] \in used THEN rest
             ELSE Append(rest, [file |-> order[n], score |-> 0])

TopN(candidates) == IF Len(candidates) < 3 THEN Len(candidates) ELSE 3

\* filepath.Join(cfg.Paths.AssetsVideo, file)
ClipPath(file) == <<"assets/video", file>>

\* map read with the zero value for a missing key, and map write
LogGet(log, id) == IF id \in DOMAIN log THEN log[id] ELSE <<>>

LogPut(log, id, v) == [k \in (DOMAIN log) \cup {id} |-> IF k = id THEN v ELSE log[k]]

EmptyLog == [k \in {} |-> <<>>]

\* loadUsageLog: the file content, or an empty map when the file cannot be read or parsed
loadUsageLog(file, readOk) == IF readOk THEN file ELSE EmptyLog

\* saveUsageLog: os.WriteFile's error is discarded; a failed write leaves the file as it was
saveUsageLog(file, log, writeOk) == IF writeOk THEN log ELSE file

NoPick == [called |-> FALSE, ok |-> FALSE, path |-> <<>>, file |-> 0]

PickError == [called |-> TRUE, ok |-> FALSE, path |-> <<>>, file |-> 0]

\* am.usedInRun[pick.file] = true
MarkUsedNoop(used, file) == used

MarkUsed(used, file) == used \cup {file}

\* tail of Pick once candidates is non-empty: sort, draw r = rand.Intn(topN), mark used,
\* append to the ledger, save
PickFrom(candidates, r, writeOk) ==
    LET sorted == sortScored(candidates)
        pick == sorted[r + 1]
        newLog == LogPut(usageLog, runID, Append(LogGet(usageLog, runID), pick.file))
    IN  /\ r < TopN(candidates)
        /\ usedInRun' = MarkUsed(usedInRun, pick.file)
        /\ usageLog' = newLog
        /\ ledgerFile' = saveUsageLog(ledgerFile, newLog, writeOk)
        /\ returned' = Append(returned, ClipPath(pick.file))
        /\ lastPick' = [called |-> TRUE, ok |-> TRUE,
                        path |-> ClipPath(pick.file), file |-> pick.file]
        /\ UNCHANGED <<tags, runID>>

PickFail ==
    /\ lastPick' = PickError
    /\ UNCHANGED <<tags, usageLog, runID, usedInRun, ledgerFile, returned>>

\* Pick(scene). order: map iteration order of the first loop; order2: the order in
\* which the second loop meets the files it keeps, the unused ones;
\* r: rand.Intn(topN); writeOk: whether the ledger write succeeds
Pick(scene, order, r, writeOk) ==
    IF DOMAIN tags = {}
    THEN PickFail
    ELSE LET first == ScoreFiles(order, Len(order), tags, usedInRun, scene)
         IN  IF Len(first) # 0
             THEN PickFrom(first, r, writeOk)
             ELSE \E order2 \in Perms(DOMAIN tags \ usedInRun) :
                      LET second == UnusedZero(order2, Len(order2), usedInRun)
                      IN  IF Len(second) = 0 THEN PickFail
                          ELSE PickFrom(second, r, writeOk)

\* the run identifier of the run modelled (main: uuid.NewString()[:8])
ThisRun == 1

\* ledger files a run may find: the {} written by setup.sh, or the entry of an earlier run
PriorRun == 0

PriorLedgers == {EmptyLog, [k \in {PriorRun} |-> <<1>>], [k \in {PriorRun} |-> <<2, 1>>]}

\* NewAssetManager(cfg, runID): the fields of the AssetManager it returns.
\* main draws runID from a fresh UUID, so the ledger file holds no entry for it yet
NewAssetManager(file, tagMap, id, readOk) ==
    /\ tags = tagMap
    /\ usageLog = loadUsageLog(file, readOk)
    /\ runID = id
    /\ usedInRun = {}

----------------------------------------------------------------------------
(* PollinationsFetcher: setup.sh *)

MaxAttempts == 3

MinImageBytes == 100

\* what one HTTP exchange and the following file write can do: httpClient.Do fails or
\* not, the status code, io.ReadAll fails or not, the body length, os.WriteFile fails or not
Response(do, status, read, size, write) ==
    [do |-> do, status |-> status, read |-> read, size |-> size, write |-> write]

Responses ==
    { Response(FALSE, 0, FALSE, 0, FALSE),
      Response(TRUE, 500, TRUE, 2000, TRUE),
      Response(TRUE, 200, FALSE, 0, TRUE),
      Response(TRUE, 200, TRUE, MinImageBytes - 1, TRUE),
      Response(TRUE, 200, TRUE, MinImageBytes, FALSE),
      Response(TRUE, 200, TRUE, MinImageBytes, TRUE) }

\* the length test of downloadImage: len(data) < 100
TooSmall(size) == size < MinImageBytes

\* downloadImage: "nil" or the error it returns
downloadImage(resp) ==
    IF ~resp.do THEN "do_error"
    ELSE IF resp.status # 200 THEN "http_status"
    ELSE IF ~resp.read THEN "read_error"
    ELSE IF TooSmall(resp.size) THEN "too_small"
    ELSE IF ~resp.write THEN "write_error"
    ELSE "nil"

\* filepath.Join(outputDir, fmt.Sprintf("dramatic_%03d.jpg", scene.Index))
DramaticFile(index) ==
    [name |-> <<"dramatic", index>>, kind |-> "image", dur |-> 0, exists |-> TRUE]

\* the empty path ""
NoFile == [name |-> <<>>, kind |-> "none", dur |-> 0, exists |-> FALSE]

NoFetch == [called |-> FALSE, ok |-> FALSE, file |-> NoFile, attempts |-> <<>>]

\* the retry loop's exit test: attempt <= 3
LoopDoneAfterOne(attempt) == attempt > 1

LoopDone(attempt) == attempt > MaxAttempts

RECURSIVE FetchLoop(_, _, _, _)
\* for attempt := 1; attempt <= 3; attempt++ { err = downloadImage(...); if err == nil { return } }
FetchLoop(index, outs, attempt, log) ==
    IF LoopDone(attempt)
    THEN [called |-> TRUE, ok |-> FALSE, file |-> NoFile, attempts |-> log]
    ELSE LET err == downloadImage(outs[attempt])
         IN  IF err = "nil"
             THEN [called |-> TRUE, ok |-> TRUE, file |-> DramaticFile(index),
                   attempts |-> Append(log, err)]
             ELSE FetchLoop(index, outs, attempt + 1, Append(log, err))

\* Fetch(ctx, scene, outputDir); outs[k]: what the k-th remote attempt would meet
Fetch(index, prompt, outs) ==
    IF prompt = ""
    THEN [called |-> TRUE, ok |-> FALSE, file |-> NoFile, attempts |-> <<>>]
    ELSE FetchLoop(index, outs, 1, <<>>)

FetchEnvs == [1..MaxAttempts -> Responses]

Prompts == {"", "a dark alley"}

----------------------------------------------------------------------------
----------------------------------------------------------------------------
(* ProofScraper: proof_scraper.go *)

MinProofBytes == 1000

\* the length test of downloadFile: len(data) < 1000
downloadFile(resp) ==
    IF ~resp.do THEN "do_error"
    ELSE IF resp.status # 200 THEN "http_status"
    ELSE IF ~resp.read THEN "read_error"
    ELSE IF resp.size < MinProofBytes THEN "too_small"
    ELSE IF ~resp.write THEN "write_error"
    ELSE "nil"

ProofResponses ==
    { Response(TRUE, 404, TRUE, 5000, TRUE),
      Response(TRUE, 200, TRUE, MinProofBytes - 1, TRUE),
      Response(TRUE, 200, TRUE, MinProofBytes, TRUE) }

\* what the Wikipedia summary endpoint answers: status, whether the summary names an
\* image, and what downloading that image meets
WikiAnswers ==
    { [status |-> 404, hasImage |-> FALSE, download |-> Response(TRUE, 404, TRUE, 0, TRUE)],
      [status |-> 200, hasImage |-> FALSE, download |-> Response(TRUE, 404, TRUE, 0, TRUE)],
      [status |-> 200, hasImage |-> TRUE, download |-> Response(TRUE, 200, TRUE, 10, TRUE)],
      [status |-> 200, hasImage |-> TRUE,
       download |-> Response(TRUE, 200, TRUE, MinProofBytes, TRUE)] }

\* searchWikipedia: TRUE when it returns a file; query is extractSearchQuery(narration)
searchWikipedia(query, answer) ==
    IF query = "" THEN FALSE
    ELSE IF answer.status # 200 THEN FALSE
    ELSE IF ~answer.hasImage THEN FALSE
    ELSE downloadFile(answer.download) = "nil"

\* what SerpAPI answers: the download outcome of each images_results entry, in order
SerpAnswers ==
    { <<>>,
      << Response(TRUE, 404, TRUE, 0, TRUE) >>,
      << Response(TRUE, 404, TRUE, 0, TRUE), Response(TRUE, 200, TRUE, MinProofBytes, TRUE) >> }

RECURSIVE AnyDownloads(_, _)
\* for _, img := range result.ImagesResults { if downloadFile(...) == nil { return outFile, nil } }
AnyDownloads(results, k) ==
    IF k > Len(results) THEN FALSE
    ELSE IF downloadFile(results[k]) = "nil" THEN TRUE
    ELSE AnyDownloads(results, k + 1)

searchGoogleImages(answer) ==
    IF Len(answer) = 0 THEN FALSE ELSE AnyDownloads(answer, 1)

\* proof_%03d.jpg, proof_%03d_wiki.jpg, proof_%03d_google.jpg
ProofFile(index, suffix) ==
    [name |-> <<"proof", index, suffix>>, kind |-> "image", dur |-> 0, exists |-> TRUE]

Step(step, k, ok) == [step |-> step, k |-> k, ok |-> ok]

ProofResult(ok, file, steps) == [called |-> TRUE, ok |-> ok, file |-> file, steps |-> steps]

NoProof == [called |-> FALSE, ok |-> FALSE, file |-> NoFile, steps |-> <<>>]

RECURSIVE StoryImages(_, _, _, _)
\* for _, imgURL := range story.ImageURLs { if downloadFile(...) == nil { return outFile, nil } }
\* the log extended by the downloads tried, ending with the first that succeeds
StoryImagesFirstOnly(nImgs, imgs, k, log) ==
    IF nImgs = 0 THEN log
    ELSE Append(log, Step("story_image", 1, downloadFile(imgs[1]) = "nil"))

StoryImages(nImgs, imgs, k, log) ==
    IF k > nImgs THEN log
    ELSE LET ok == downloadFile(imgs[k]) = "nil"
             next == Append(log, Step("story_image", k, ok))
         IN  IF ok THEN next ELSE StoryImages(nImgs, imgs, k + 1, next)

LastOk(log) == Len(log) > 0 /\ log[Len(log)].ok

\* FetchProofImage(ctx, scene, story, outputDir). in: scene.Index, scene.ProofImageURL,
\* the query extracted from scene.Narration, len(story.ImageURLs), ps.serpAPIKey;
\* env: what each remote source would answer
FetchProofImage(in, env) ==
    LET s1 == IF in.url # ""
              THEN << Step("scene_url", 0, downloadFile(env.url) = "nil") >>
              ELSE <<>>
    IN  IF LastOk(s1) THEN ProofResult(TRUE, ProofFile(in.index, ""), s1)
        ELSE
        LET s2 == Append(s1, Step("wikipedia", 0, searchWikipedia(in.query, env.wiki)))
        IN  IF LastOk(s2) THEN ProofResult(TRUE, ProofFile(in.index, "wiki"), s2)
            ELSE
            LET s3 == StoryImages(in.nImgs, env.imgs, 1, s2)
            IN  IF LastOk(s3) THEN ProofResult(TRUE, ProofFile(in.index, ""), s3)
                ELSE IF in.key = "" THEN ProofResult(FALSE, NoFile, s3)
                ELSE
                LET s4 == Append(s3, Step("image_search", 0, searchGoogleImages(env.serp)))
                IN  IF LastOk(s4) THEN ProofResult(TRUE, ProofFile(in.index, "google"), s4)
                    ELSE ProofResult(FALSE, NoFile, s4)

ProofInputs ==
    [index : {1}, url : {"", "http://img"}, query : {"", "harbor police"},
     nImgs : 0..MaxStoryImages, key : {"", "serp-key"}]

ProofEnvs ==
    [url : ProofResponses, wiki : WikiAnswers,
     imgs : [1..MaxStoryImages -> ProofResponses], serp : SerpAnswers]

----------------------------------------------------------------------------
(* Assembler: pipeline.go *)

DefaultDurationSec == 5

\* ScriptScene.SceneType as the script stage delivers it: convertToScript copies the
\* LLM's scene_type unchecked, so a value outside the three documented ones can arrive
SceneTypes == {"cinematic", "dramatic", "proof", "montage"}

AudioDurs == {0, 4}

Scene(index, type, prompt, dur) ==
    [Index |-> index, SceneType |-> type, Mood |-> "tense", ImagePrompt |-> prompt,
     AssetTags |-> <<"dark", "Dark">>, ProofImageURL |-> "", Narration |-> "harbor police",
     AudioDurationSec |-> dur, VisualFile |-> NoFile]

\* the switch reads no field of a scene whose type has no case: one such scene is enough
SceneBodies ==
    { b \in [type : SceneTypes, prompt : Prompts, dur : AudioDurs] :
        b.type \notin {"cinematic", "dramatic", "proof"} => (b.prompt = "" /\ b.dur = 0) }

\* script.Scenes as convertToScript builds it: Index = position, VisualFile empty
Scripts ==
    UNION { { [k \in 1..n |-> Scene(k - 1, b[k].type, b[k].prompt, b[k].dur)] :
              b \in [1..n -> SceneBodies] } : n \in 0..MaxScenes }

\* duration := scene.AudioDurationSec; if duration <= 0 { duration = 5.0 }
Duration(scene) ==
    IF scene.AudioDurationSec <= 0 THEN DefaultDurationSec ELSE scene.AudioDurationSec

Min(a, b) == IF a < b THEN a ELSE b

\* the picked clip: its length in seconds, and whether ffprobe manages to report it
ClipProbes == [ok : BOOLEAN, dur : {2, 6}]

\* the clip file Pick returned
ClipSource(path) == [name |-> path, kind |-> "video", dur |-> 0, exists |-> TRUE]

\* prepareVideoClip: trim (-t duration) or loop (-stream_loop loops, -t duration);
\* clipDur is the measured length, or duration when getVideoDuration failed; the
\* material supplied is the file played loops + 1 times; the output is as long as -t
\* asks, or as the material supplied if that is shorter
prepareVideoClip(scene, probe, ffOk) ==
    LET duration == Duration(scene)
        clipDur == IF probe.ok THEN probe.dur ELSE duration
        loops == IF clipDur >= duration THEN 0 ELSE (duration \div clipDur) + 2
        supplied == (loops + 1) * probe.dur
    IN  [ok |-> ffOk, t |-> duration, loops |-> loops, supplied |-> supplied,
         file |-> IF ffOk
                  THEN [name |-> <<"clip", scene.Index>>, kind |-> "video",
                        dur |-> Min(duration, supplied), exists |-> TRUE]
                  ELSE NoFile]

\* prepareImageWithKenBurns: ffmpeg -loop 1 -i img ... -t duration; fails without its input
prepareImageWithKenBurns(img, scene, ffOk) ==
    LET ok == ffOk /\ img.exists
    IN  [ok |-> ok,
         file |-> IF ok
                  THEN [name |-> <<"kenburns", scene.Index>>, kind |-> "video",
                        dur |-> Duration(scene), exists |-> TRUE]
                  ELSE NoFile]

\* addSourceCredit: writes proof_credited_%03d.jpg, a still image
addSourceCredit(img, scene, ffOk) ==
    [ok |-> ffOk,
     file |-> IF ffOk
              THEN [name |-> <<"proof_credited", scene.Index>>, kind |-> "image",
                    dur |-> 0, exists |-> TRUE]
              ELSE NoFile]

\* createFallbackFrame: returns the path whether or not ffmpeg wrote the file
createFallbackFrame(sceneIndex, ffOk) ==
    [name |-> <<"fallback", sceneIndex>>, kind |-> "image", dur |-> 0, exists |-> ffOk]

\* fmt.Sprintf("dark crime scene %s atmosphere cinematic", scene.Mood)
CinematicDefaultPrompt(mood) ==
    IF mood = "tense" THEN "dark crime scene tense atmosphere cinematic"
    ELSE "dark crime scene atmosphere cinematic"

ProofDefaultPrompt == "evidence document crime scene investigation cinematic"

\* if scene.ImagePrompt == "" { scene.ImagePrompt = <default> }
PromptAfter(prompt, default) == IF prompt = "" THEN default ELSE prompt

\* scene.SceneType = "dramatic", the assignment made when Pick or FetchProofImage failed
DowngradedTypeProof == "proof"

DowngradedType == "dramatic"

\* what Fetch can return for a prompt that is empty or not, over every remote behaviour
FetchRuns ==
    { [empty |-> (p = ""), ok |-> Fetch(0, p, outs).ok] : p \in Prompts, outs \in FetchEnvs }

\* what FetchProofImage can return for a scene URL and query, over every story, key
\* and remote behaviour: whether it succeeds and which file it then names
ProofRuns ==
    { [url |-> in.url, query |-> in.query,
       ok |-> FetchProofImage(in, env).ok,
       suffix |-> IF FetchProofImage(in, env).ok
                  THEN FetchProofImage(in, env).file.name[3] ELSE ""] :
      in \in {i \in ProofInputs : i.nImgs = MaxStoryImages}, env \in ProofEnvs }

Call(fn, ok, in, out) == [fn |-> fn, ok |-> ok, in |-> in, out |-> out]

\* the end of one loop iteration: return err, or store the scene and go on
Iterated(scene, made, err) ==
    /\ scenes' = [scenes EXCEPT ![pos] = scene]
    /\ calls' = made
    /\ runErr' = err
    /\ runState' = IF err = "" THEN "running" ELSE "err"
    /\ pos' = IF err = "" THEN pos + 1 ELSE pos
    /\ UNCHANGED declared

\* Fetch, then createFallbackFrame when Fetch failed, then prepareImageWithKenBurns:
\* the dramatic case, and the proof case after FetchProofImage failed
GeneratedWithFallback(scene, before, fetchOk, fbOk, kbOk) ==
    LET fetched == IF fetchOk THEN DramaticFile(scene.Index) ELSE NoFile
        c1 == Append(before, Call("Fetch", fetchOk, NoFile, fetched))
        fallback == createFallbackFrame(scene.Index, fbOk)
        img == IF fetchOk THEN fetched ELSE fallback
        c2 == IF fetchOk THEN c1 ELSE Append(c1, Call("createFallbackFrame", TRUE, NoFile, fallback))
        kb == prepareImageWithKenBurns(img, scene, kbOk)
        c3 == Append(c2, Call("prepareImageWithKenBurns", kb.ok, img, kb.file))
    IN  IF kb.ok
        THEN Iterated([scene EXCEPT !.VisualFile = kb.file], c3, "")
        ELSE Iterated(scene, c3, "ffmpeg ken burns")

\* Fetch, then prepareImageWithKenBurns: the cinematic case after Pick failed
GeneratedNoFallback(scene, before, fetchOk, kbOk) ==
    LET fetched == IF fetchOk THEN DramaticFile(scene.Index) ELSE NoFile
        c1 == Append(before, Call("Fetch", fetchOk, NoFile, fetched))
        kb == prepareImageWithKenBurns(fetched, scene, kbOk)
        c2 == Append(c1, Call("prepareImageWithKenBurns", kb.ok, fetched, kb.file))
    IN  IF ~fetchOk THEN Iterated(scene, c1, "visual fallback failed")
        ELSE IF kb.ok THEN Iterated([scene EXCEPT !.VisualFile = kb.file], c2, "")
        ELSE Iterated(scene, c2, "ffmpeg ken burns")

AtScene(type) ==
    /\ runState = "running"
    /\ pos <= Len(scenes)
    /\ scenes[pos].SceneType = type

\* os.MkdirAll(visualDir)
RunEnter ==
    /\ runState = "entered"
    /\ \E ok \in BOOLEAN :
          /\ runState' = IF ok THEN "running" ELSE "err"
          /\ runErr' = IF ok THEN "" ELSE "mkdir"
    /\ UNCHANGED <<scenes, pos, calls, declared, amVars, fetchVars, proofVars, restVars>>

\* case "cinematic"
RunCinematic ==
    /\ AtScene("cinematic")
    /\ \E order \in Perms(DOMAIN tags), r \in 0..2, writeOk \in BOOLEAN :
           Pick(scenes[pos], order, r, writeOk)
    /\ LET scene == scenes[pos]
           picked == lastPick'.ok
           clip == IF picked THEN ClipSource(lastPick'.path) ELSE NoFile
           c0 == << Call("Pick", picked, NoFile, clip) >>
       IN  IF picked
           THEN \E probe \in ClipProbes, ffOk \in BOOLEAN :
                    LET prep == prepareVideoClip(scene, probe, ffOk)
                        c1 == Append(c0, Call("prepareVideoClip", prep.ok, clip, prep.file))
                    IN  IF prep.ok
                        THEN Iterated([scene EXCEPT !.VisualFile = prep.file], c1, "")
                        ELSE Iterated(scene, c1, "clip prep failed")
           ELSE LET downgraded ==
                        [scene EXCEPT
                           !.SceneType = DowngradedType,
                           !.ImagePrompt = PromptAfter(scene.ImagePrompt,
                                                       CinematicDefaultPrompt(scene.Mood))]
                IN  \E run \in FetchRuns, kbOk \in BOOLEAN :
                        /\ run.empty = (downgraded.ImagePrompt = "")
                        /\ GeneratedNoFallback(downgraded, c0, run.ok, kbOk)
    /\ UNCHANGED <<fetchVars, proofVars, restVars>>

\* case "dramatic"
RunDramatic ==
    /\ AtScene("dramatic")
    /\ \E run \in FetchRuns, fbOk \in BOOLEAN, kbOk \in BOOLEAN :
          /\ run.empty = (scenes[pos].ImagePrompt = "")
          /\ GeneratedWithFallback(scenes[pos], <<>>, run.ok, fbOk, kbOk)
    /\ UNCHANGED <<amVars, fetchVars, proofVars, restVars>>

\* case "proof"
RunProof ==
    /\ AtScene("proof")
    /\ \E found \in ProofRuns :
          /\ found.url = scenes[pos].ProofImageURL
          /\ found.query = scenes[pos].Narration
          /\ LET scene == scenes[pos]
                 img == IF found.ok THEN ProofFile(scene.Index, found.suffix) ELSE NoFile
                 c0 == << Call("FetchProofImage", found.ok, NoFile, img) >>
             IN  IF found.ok
                 THEN \E ffOk \in BOOLEAN :
                          LET credit == addSourceCredit(img, scene, ffOk)
                              credited == IF credit.ok THEN credit.file ELSE img
                              c1 == Append(c0, Call("addSourceCredit", credit.ok, img, credit.file))
                          IN  Iterated([scene EXCEPT !.VisualFile = credited], c1, "")
                 ELSE LET downgraded ==
                              [scene EXCEPT
                                 !.SceneType = DowngradedType,
                                 !.ImagePrompt = PromptAfter(scene.ImagePrompt,
                                                             ProofDefaultPrompt)]
                      IN  \E run \in FetchRuns, fbOk \in BOOLEAN, kbOk \in BOOLEAN :
                              /\ run.empty = (downgraded.ImagePrompt = "")
                              /\ GeneratedWithFallback(downgraded, c0, run.ok, fbOk, kbOk)
    /\ UNCHANGED <<amVars, fetchVars, proofVars, restVars>>

\* a SceneType the switch has no case for: the iteration only logs
RunOtherType ==
    /\ runState = "running"
    /\ pos <= Len(scenes)
    /\ scenes[pos].SceneType \notin {"cinematic", "dramatic", "proof"}
    /\ Iterated(scenes[pos], <<>>, "")
    /\ UNCHANGED <<amVars, fetchVars, proofVars, restVars>>

\* the loop is over: return nil
RunReturn ==
    /\ runState = "running"
    /\ pos > Len(scenes)
    /\ runState' = "ok"
    /\ UNCHANGED <<scenes, pos, runErr, calls, declared, amVars, fetchVars, proofVars, restVars>>

----------------------------------------------------------------------------
(* Values of the variables a specification does not use *)

IdleRun ==
    /\ scenes = <<>>
    /\ pos = 0
    /\ runState = "idle"
    /\ runErr = ""
    /\ calls = <<>>
    /\ declared = <<>>

IdleAM ==
    /\ tags = EmptyLog
    /\ usageLog = EmptyLog
    /\ runID = ThisRun
    /\ usedInRun = {}
    /\ ledgerFile = EmptyLog
    /\ returned = <<>>
    /\ lastPick = NoPick

IdleFetch == fetchIn = <<>> /\ fetchOut = NoFetch

IdleProof == proofIn = <<>> /\ proofOut = NoProof

IdleRender == render = <<>>

IdleWorkers == workers = <<>>

IdleMain == pipeline = <<>>

IdleCancel == cx = <<>>

IdleClip == clipIn = <<>> /\ clipOut = <<>>

IdleCall == callIn = <<>> /\ callOut = <<>>

IdleTTS == tts = <<>>

IdleRest ==
    IdleRender /\ IdleWorkers /\ IdleMain /\ IdleCancel /\ IdleClip /\ IdleCall /\ IdleTTS

----------------------------------------------------------------------------
(* SpecAM: one AssetManager, any sequence of Pick calls *)

InitAssetManager ==
    /\ ledgerFile \in PriorLedgers
    /\ \E tagMap \in TagMaps, readOk \in BOOLEAN :
           NewAssetManager(ledgerFile, tagMap, ThisRun, readOk)
    /\ returned = <<>>
    /\ lastPick = NoPick

InitAM == InitAssetManager /\ IdleRun /\ IdleFetch /\ IdleProof /\ IdleRest

AMPick ==
    /\ \E scene \in PickScenes, order \in Perms(DOMAIN tags), r \in 0..2, writeOk \in BOOLEAN :
           Pick(scene, order, r, writeOk)
    /\ UNCHANGED <<runVars, fetchVars, proofVars, restVars>>

NextAM == AMPick

SpecAM == InitAM /\ [][NextAM]_vars

----------------------------------------------------------------------------
(* SpecFetch: one call of PollinationsFetcher.Fetch, any prompt, any remote behaviour *)

InitFetch ==
    /\ fetchIn \in [index : {1}, prompt : Prompts, outs : FetchEnvs]
    /\ fetchOut = NoFetch
    /\ IdleAM /\ IdleRun /\ IdleProof /\ IdleRest

FetchCall ==
    /\ ~fetchOut.called
    /\ fetchOut' = Fetch(fetchIn.index, fetchIn.prompt, fetchIn.outs)
    /\ UNCHANGED <<fetchIn, amVars, runVars, proofVars, restVars>>

NextFetch == FetchCall

SpecFetch == InitFetch /\ [][NextFetch]_vars

----------------------------------------------------------------------------
(* SpecProof: one call of ProofScraper.FetchProofImage, any scene, story and remote behaviour *)

InitProof ==
    /\ proofIn \in [in : ProofInputs, env : ProofEnvs]
    /\ proofOut = NoProof
    /\ IdleAM /\ IdleRun /\ IdleFetch /\ IdleRest

ProofCall ==
    /\ ~proofOut.called
    /\ proofOut' = FetchProofImage(proofIn.in, proofIn.env)
    /\ UNCHANGED <<proofIn, amVars, runVars, fetchVars, restVars>>

NextProof == ProofCall

SpecProof == InitProof /\ [][NextProof]_vars

----------------------------------------------------------------------------
(* Spec: NewAssembler, then one call of Assembler.Run on any script *)

\* the clip pools a run is started with: empty, or small enough for a script to use up
RunPools == {m \in TagMaps : Cardinality(DOMAIN m) <= MaxPoolInRun}

Init ==
    /\ ledgerFile = EmptyLog
    /\ \E tagMap \in RunPools : NewAssetManager(ledgerFile, tagMap, ThisRun, TRUE)
    /\ returned = <<>>
    /\ lastPick = NoPick
    /\ scenes \in Scripts
    /\ declared = [k \in DOMAIN scenes |-> scenes[k].SceneType]
    /\ pos = 1
    /\ runState = "entered"
    /\ runErr = ""
    /\ calls = <<>>
    /\ IdleFetch /\ IdleProof /\ IdleRest

Next ==
    \/ RunEnter
    \/ RunCinematic
    \/ RunDramatic
    \/ RunProof
    \/ RunOtherType
    \/ RunReturn

Spec == Init /\ [][Next]_vars

----------------------------------------------------------------------------
(* Claims about AssetManager, checked under SpecAM *)

\* filepath.Base of a path returned by Pick
BaseOf(path) == path[2]

ReturnedFiles == [k \in DOMAIN returned |-> BaseOf(returned[k])]

\* the clip pool is empty or every clip of it is marked used in this run
Exhausted == DOMAIN tags \subseteq usedInRun

\* C3: over any sequence of Pick calls on one AssetManager, no clip path is returned
\* by two different successful calls.
C3_NoClipReturnedTwice ==
    \A a, b \in DOMAIN returned : a # b => returned[a] # returned[b]

C3_Witness == Len(returned) >= 2 /\ lastPick.ok

\* C4: a Pick call returns an error exactly when the pool is empty or every clip is
\* already used; from then on the pool stays exhausted, and the failing call changes
\* neither the used set nor the ledger (in memory or on disk).
C4_ErrorIffExhausted ==
    [][lastPick'.called =>
          /\ (~lastPick'.ok) <=> Exhausted
          /\ Exhausted => /\ Exhausted'
                          /\ usedInRun' = usedInRun
                          /\ usageLog' = usageLog
                          /\ ledgerFile' = ledgerFile]_vars

C4_Witness ==
    /\ lastPick.called /\ ~lastPick.ok
    /\ DOMAIN tags # {} /\ usedInRun = DOMAIN tags

\* C10: after every successful Pick the ledger file's entry for the current run is
\* exactly the ordered list of the clips returned so far in this run, and its elements
\* are the in-memory used set.
C10_LedgerFileHoldsEveryPick ==
    lastPick.ok =>
        /\ LogGet(ledgerFile, runID) = ReturnedFiles
        /\ Range(LogGet(ledgerFile, runID)) = usedInRun

----------------------------------------------------------------------------
(* Claims about PollinationsFetcher.Fetch, checked under SpecFetch *)

\* the attempt yields an HTTP-success body of at least the minimum size
BodyOk(resp) == resp.do /\ resp.status = 200 /\ resp.read /\ resp.size >= MinImageBytes

\* what Fetch must have done if exactly the attempts in hits count as successful
FetchFollows(hits) ==
    LET prompt == fetchIn.prompt
        made == Len(fetchOut.attempts)
    IN  /\ made <= 3
        /\ prompt = "" => ~fetchOut.ok /\ made = 0
        /\ prompt # "" =>
              IF hits # {}
              THEN /\ fetchOut.ok
                   /\ made \in hits
                   /\ \A k \in hits : made <= k
              ELSE ~fetchOut.ok /\ made = 3

GoodBody == {k \in 1..3 : BodyOk(fetchIn.outs[k])}

GoodBodySaved == {k \in 1..3 : BodyOk(fetchIn.outs[k]) /\ fetchIn.outs[k].write}

\* C9 as stated: at most 3 remote attempts; success at the first attempt that yields an
\* HTTP-success body of at least the minimum size, with no further attempt; an undersized
\* body is a failed attempt; an error only after the third failed attempt, or at once and
\* without a remote call when the scene has no prompt.
C9_AsStated == fetchOut.called => FetchFollows(GoodBody)

\* C9 amended: the same, where an attempt succeeds when it yields an HTTP-success body of
\* at least the minimum size and that body is written to the output file; a body that
\* cannot be written is a failed attempt like an undersized one.
C9_FetchRetries == fetchOut.called => FetchFollows(GoodBodySaved)

C9_Witness ==
    /\ fetchOut.called /\ fetchOut.ok
    /\ fetchOut.attempts = <<"too_small", "http_status", "nil">>

----------------------------------------------------------------------------
(* Claims about ProofScraper.FetchProofImage, checked under SpecProof *)

\* the steps that apply to an input, in the order scene URL, knowledge base, story
\* images in list order, image search
ApplicableSteps(in) ==
    (IF in.url # "" THEN << Step("scene_url", 0, FALSE) >> ELSE <<>>)
    \o << Step("wikipedia", 0, FALSE) >>
    \o [k \in 1..in.nImgs |-> Step("story_image", k, FALSE)]
    \o (IF in.key # "" THEN << Step("image_search", 0, FALSE) >> ELSE <<>>)

\* whether a step, were it attempted, succeeds
StepSucceeds(s, in, env) ==
    CASE s.step = "scene_url" -> downloadFile(env.url) = "nil"
      [] s.step = "wikipedia" -> searchWikipedia(in.query, env.wiki)
      [] s.step = "story_image" -> downloadFile(env.imgs[s.k]) = "nil"
      [] s.step = "image_search" -> searchGoogleImages(env.serp)

\* C8: the steps attempted are an initial part of scene URL (if present), knowledge base,
\* story images in list order, image search (only with an API key); every attempted step
\* but the last failed, the chain stops early only on a success, and an error is returned
\* exactly when every applicable step failed.
C8_OrderedFallbackChain ==
    proofOut.called =>
        LET in == proofIn.in
            env == proofIn.env
            app == ApplicableSteps(in)
            steps == proofOut.steps
            n == Len(steps)
        IN  /\ n >= 1 /\ n <= Len(app)
            /\ \A j \in 1..n : /\ steps[j].step = app[j].step
                               /\ steps[j].k = app[j].k
                               /\ steps[j].ok = StepSucceeds(app[j], in, env)
            /\ \A j \in 1..(n - 1) : ~steps[j].ok
            /\ n < Len(app) => steps[n].ok
            /\ proofOut.ok <=> steps[n].ok
            /\ (~proofOut.ok) <=> \A j \in 1..Len(app) : ~StepSucceeds(app[j], in, env)

C8_Witness ==
    /\ proofOut.called /\ proofOut.ok
    /\ proofIn.in.key # ""
    /\ Len(proofOut.steps) = 4
    /\ proofOut.steps[1].step = "scene_url"
    /\ proofOut.steps[4] = Step("story_image", 2, TRUE)

----------------------------------------------------------------------------
(* Claims about Assembler.Run, checked under Spec *)

\* the scene of the loop iteration that made `calls`
Current == IF runState = "err" THEN pos ELSE pos - 1

Called(fn, ok) == \E k \in DOMAIN calls : calls[k].fn = fn /\ calls[k].ok = ok

\* C1: once Run has returned nil, every scene of the script has a non-empty
\* VisualFile, whatever the scene list and whatever the sources did, a scene whose
\* type is none of cinematic, dramatic, proof included.
C1_EverySceneHasVisualFile ==
    runState = "ok" => \A i \in DOMAIN scenes : scenes[i].VisualFile.name # <<>>

\* C2: once Run has returned nil, every scene's VisualFile is a video clip as long as
\* the scene's AudioDurationSec: none is a still image, none has another length.
C2_VisualFileIsClipOfAudioLength ==
    runState = "ok" =>
        \A i \in DOMAIN scenes :
            /\ scenes[i].VisualFile.kind = "video"
            /\ scenes[i].VisualFile.dur = scenes[i].AudioDurationSec

C6_GenerationFailureUsesFallback ==
    /\ ( /\ Called("Fetch", FALSE)
         /\ \/ declared[Current] = "dramatic"
            \/ declared[Current] = "proof" /\ scenes[Current].SceneType = "dramatic" )
       => \E k \in DOMAIN calls :
              /\ k < Len(calls)
              /\ calls[k].fn = "createFallbackFrame"
              /\ calls[k + 1].fn = "prepareImageWithKenBurns"
              /\ calls[k + 1].in = calls[k].out
              /\ calls[k].out.name = <<"fallback", scenes[Current].Index>>
    /\ runErr # "visual fallback failed"

\* C7: a scene's SceneType changes only by a downgrade after a failure: the scene in
\* hand goes from cinematic to dramatic after Pick failed, or from proof to dramatic
\* after FetchProofImage failed; a dramatic scene keeps its type and no scene
\* becomes cinematic or proof.
C7_TypeChangesOnlyByDowngrade ==
    [][\A i \in DOMAIN scenes :
          scenes'[i].SceneType # scenes[i].SceneType =>
              /\ i = pos
              /\ scenes'[i].SceneType = "dramatic"
              /\ calls' # <<>>
              /\ ~calls'[1].ok
              /\ \/ scenes[i].SceneType = "cinematic" /\ calls'[1].fn = "Pick"
                 \/ scenes[i].SceneType = "proof" /\ calls'[1].fn = "FetchProofImage"]_vars

C7_Witness ==
    /\ runState = "ok"
    /\ \E i, j \in DOMAIN scenes :
          /\ declared[i] = "cinematic" /\ scenes[i].SceneType = "dramatic"
          /\ declared[j] = "proof" /\ scenes[j].SceneType = "dramatic"

----------------------------------------------------------------------------
(* Further claims about AssetManager, checked under SpecAM *)

\* C11: the ledger file is append-only across runs: whatever NewAssetManager and Pick
\* do, the entry the file holds for another run identifier stays in the file
\* unchanged, also when the file could not be read or parsed at load time.
C11_LedgerKeepsOtherRuns ==
    [][\A k \in DOMAIN ledgerFile :
          k # runID => (k \in DOMAIN ledgerFile' /\ ledgerFile'[k] = ledgerFile[k])]_vars

----------------------------------------------------------------------------
(* SpecConc: several goroutines call Pick on one AssetManager *)
(* Pick takes no lock (asset_manager.go has no mutex), so its statements interleave *)

MaxWorkers == 2

Workers == 1..MaxWorkers

\* the scene every worker resolves
ConcScene == [AssetTags |-> <<"dark", "Dark">>, Mood |-> "tense"]

WorkerAt(pc, ok, pick, slice, data) ==
    [pc |-> pc, ok |-> ok, pick |-> pick, slice |-> slice, data |-> data]

WorkerIdle == WorkerAt("idle", FALSE, 0, <<>>, EmptyLog)

InitConc ==
    /\ ledgerFile = EmptyLog
    /\ \E tagMap \in TagMaps : NewAssetManager(ledgerFile, tagMap, ThisRun, TRUE)
    /\ returned = <<>>
    /\ lastPick = NoPick
    /\ workers = [w \in Workers |-> WorkerIdle]
    /\ IdleRun /\ IdleFetch /\ IdleProof
    /\ IdleRender /\ IdleMain /\ IdleCancel /\ IdleClip /\ IdleCall /\ IdleTTS

ConcFrame == UNCHANGED <<tags, runID, lastPick, runVars, fetchVars, proofVars,
                         render, pipeline, cx, clipIn, clipOut, callIn, callOut, tts>>

\* lines 46-88: the emptiness test, both loops, the sort and the draw, reading
\* am.tags and am.usedInRun as they are at that moment
ConcScore(w) ==
    /\ workers[w].pc = "idle"
    /\ \E order \in Perms(DOMAIN tags), r \in 0..2 :
          LET first == ScoreFiles(order, Len(order), tags, usedInRun, ConcScene)
              sorted == sortScored(first)
          IN  IF DOMAIN tags = {} \/ Len(first) = 0
              THEN workers' = [workers EXCEPT ![w] = WorkerAt("done", FALSE, 0, <<>>, EmptyLog)]
              ELSE /\ r < TopN(first)
                   /\ workers' = [workers EXCEPT
                                    ![w] = WorkerAt("picked", FALSE, sorted[r + 1].file, <<>>, EmptyLog)]
    /\ UNCHANGED <<usedInRun, usageLog, ledgerFile, returned>>
    /\ ConcFrame

\* two goroutines about to write am.usedInRun at once: the Go runtime may detect the
\* concurrent map writes and end the process
ConcMapFault(w) ==
    /\ workers[w].pc = "picked"
    /\ \E v \in Workers \ {w} : workers[v].pc = "picked"
    /\ workers' = [v \in Workers |-> [workers[v] EXCEPT !.pc = "crashed"]]
    /\ UNCHANGED <<usedInRun, usageLog, ledgerFile, returned>>
    /\ ConcFrame

\* line 91: am.usedInRun[pick.file] = true
ConcMark(w) ==
    /\ workers[w].pc = "picked"
    /\ usedInRun' = MarkUsed(usedInRun, workers[w].pick)
    /\ workers' = [workers EXCEPT ![w].pc = "marked"]
    /\ UNCHANGED <<usageLog, ledgerFile, returned>>
    /\ ConcFrame

\* line 92, right-hand side: append(am.usageLog[am.runID], pick.file)
ConcAppendRead(w) ==
    /\ workers[w].pc = "marked"
    /\ workers' = [workers EXCEPT
                     ![w].pc = "read",
                     ![w].slice = Append(LogGet(usageLog, runID), workers[w].pick)]
    /\ UNCHANGED <<usedInRun, usageLog, ledgerFile, returned>>
    /\ ConcFrame

\* line 92, assignment: am.usageLog[am.runID] = ...
ConcAppendWrite(w) ==
    /\ workers[w].pc = "read"
    /\ usageLog' = LogPut(usageLog, runID, workers[w].slice)
    /\ workers' = [workers EXCEPT ![w].pc = "appended"]
    /\ UNCHANGED <<usedInRun, ledgerFile, returned>>
    /\ ConcFrame

\* saveUsageLog, line 175: json.MarshalIndent(am.usageLog)
ConcMarshal(w) ==
    /\ workers[w].pc = "appended"
    /\ workers' = [workers EXCEPT ![w].pc = "marshalled", ![w].data = usageLog]
    /\ UNCHANGED <<usedInRun, usageLog, ledgerFile, returned>>
    /\ ConcFrame

\* saveUsageLog, line 176: os.WriteFile (the write succeeds), then lines 95-97: return
ConcWriteReturn(w) ==
    /\ workers[w].pc = "marshalled"
    /\ ledgerFile' = saveUsageLog(ledgerFile, workers[w].data, TRUE)
    /\ returned' = Append(returned, ClipPath(workers[w].pick))
    /\ workers' = [workers EXCEPT ![w].pc = "done", ![w].ok = TRUE]
    /\ UNCHANGED <<usedInRun, usageLog>>
    /\ ConcFrame

NextConc ==
    \/ \E w \in Workers : ConcScore(w)
    \/ \E w \in Workers : ConcMapFault(w)
    \/ \E w \in Workers : ConcMark(w)
    \/ \E w \in Workers : ConcAppendRead(w)
    \/ \E w \in Workers : ConcAppendWrite(w)
    \/ \E w \in Workers : ConcMarshal(w)
    \/ \E w \in Workers : ConcWriteReturn(w)

SpecConc == InitConc /\ [][NextConc]_vars

InPick(w) == workers[w].pc \in {"picked", "marked", "read", "appended", "marshalled"}

\* C12: with several workers inside Pick on one AssetManager, scoring, picking,
\* marking and persisting run under mutual exclusion: two workers are never inside
\* that sequence at once, no two workers get the same clip, and once all have
\* returned every clip handed out is in the ledger file.
C12_PickIsMutuallyExclusive ==
    /\ \A v, w \in Workers : (v # w /\ InPick(v)) => ~InPick(w)
    /\ \A v, w \in Workers :
          (v # w /\ workers[v].ok /\ workers[w].ok) => workers[v].pick # workers[w].pick
    /\ (\A w \in Workers : workers[w].pc = "done") =>
          \A w \in Workers :
              workers[w].ok => workers[w].pick \in Range(LogGet(ledgerFile, runID))

----------------------------------------------------------------------------
(* Renderer: pipeline.go (package render) *)

NarrationFile == <<"audio_final">>

MixedFile == <<"audio_mixed">>

SilentFile == <<"visuals_raw">>

FinalFile == <<"final_video">>

OverlayFile(idx) == <<"proof_overlay", idx>>

HasVisual(scene) == scene.VisualFile.name # <<>>

RECURSIVE concatLinesReversed(_, _)
\* for _, scene := range script.Scenes { if scene.VisualFile != "" { lines = append(lines, ...) } }
concatLinesReversed(list, n) ==
    IF n = 0 THEN <<>>
    ELSE IF HasVisual(list[n])
         THEN <<list[n].VisualFile.name>> \o concatLinesReversed(list, n - 1)
         ELSE concatLinesReversed(list, n - 1)

RECURSIVE concatLines(_, _)
concatLines(list, n) ==
    IF n = 0 THEN <<>>
    ELSE IF HasVisual(list[n])
         THEN Append(concatLines(list, n - 1), list[n].VisualFile.name)
         ELSE concatLines(list, n - 1)

NoConcat == [called |-> FALSE, lines |-> <<>>, wrote |-> FALSE, transcoded |-> FALSE, ok |-> FALSE]

\* concatenateVisuals: the segment list, the write of the list file, the ffmpeg run
concatenateVisuals(list, writeOk, ffOk) ==
    LET lines == concatLines(list, Len(list))
    IN  IF Len(lines) = 0
        THEN [called |-> TRUE, lines |-> lines, wrote |-> FALSE, transcoded |-> FALSE, ok |-> FALSE]
        ELSE IF ~writeOk
        THEN [called |-> TRUE, lines |-> lines, wrote |-> FALSE, transcoded |-> FALSE, ok |-> FALSE]
        ELSE [called |-> TRUE, lines |-> lines, wrote |-> TRUE, transcoded |-> TRUE, ok |-> ffOk]

\* applyProofOverlays, first loop: scene.SceneType == "proof" && scene.VisualFile != ""
IsProofSceneAnyType(scene) == HasVisual(scene)

IsProofScene(scene) == scene.SceneType = "proof" /\ HasVisual(scene)

RECURSIVE proofScenesOf(_, _)
\* the positions in script.Scenes of the scenes collected into proofScenes, in order
proofScenesOf(list, n) ==
    IF n = 0 THEN <<>>
    ELSE IF IsProofScene(list[n]) THEN Append(proofScenesOf(list, n - 1), n)
         ELSE proofScenesOf(list, n - 1)

\* applyOneProofOverlay: scale the image, then one ffmpeg run whose filter both dims
\* the background and slides the image in; outFile is proof_overlay_<idx>.mp4
applyOneProofOverlay(videoFile, scenePos, idx, scaleOk, ffOk) ==
    [scene |-> scenePos, idx |-> idx, in |-> videoFile, ok |-> scaleOk /\ ffOk,
     out |-> IF scaleOk /\ ffOk THEN OverlayFile(idx) ELSE <<>>,
     dims |-> scaleOk /\ ffOk, image |-> scaleOk /\ ffOk]

\* if err != nil { continue }; currentVideo = overlaid
CurrentAfterAlways(currentVideo, step) == step.out

CurrentAfter(currentVideo, step) == IF step.ok THEN step.out ELSE currentVideo

\* Run, step 3: if err != nil { mixedAudio = audioFile }
MixedAfterAlways(mixOk, audioFile) == MixedFile

MixedAfter(mixOk, audioFile) == IF mixOk THEN MixedFile ELSE audioFile

NoMux == [called |-> FALSE, video |-> <<>>, audio |-> <<>>, ok |-> FALSE]

RenderAt(stage) ==
    [stage |-> stage, concat |-> NoConcat, proofScenes |-> <<>>, steps |-> <<>>,
     current |-> <<>>, overlayErr |-> "", proofVideo |-> <<>>, mixOk |-> FALSE,
     mixedAudio |-> <<>>, mux |-> NoMux, final |-> <<>>, err |-> ""]

RenderFrame == UNCHANGED <<amVars, runVars, fetchVars, proofVars,
                           workers, pipeline, cx, clipIn, clipOut, callIn, callOut, tts>>

\* Run, step 1: concatenateVisuals; then applyProofOverlays up to its loop
RenderConcat ==
    /\ render.stage = "start"
    /\ \E writeOk \in BOOLEAN, ffOk \in BOOLEAN :
          LET c == concatenateVisuals(scenes, writeOk, ffOk)
          IN  render' = IF c.ok
                        THEN [render EXCEPT !.stage = "overlay", !.concat = c,
                                            !.proofScenes = proofScenesOf(scenes, Len(scenes)),
                                            !.current = SilentFile]
                        ELSE [render EXCEPT !.stage = "err", !.concat = c,
                                            !.err = "concatenate visuals"]
    /\ RenderFrame

\* applyProofOverlays: one iteration of the loop over proofScenes
RenderOverlay ==
    /\ render.stage = "overlay"
    /\ Len(render.steps) < Len(render.proofScenes)
    /\ \E scaleOk \in BOOLEAN, ffOk \in BOOLEAN :
          LET i == Len(render.steps)
              step == applyOneProofOverlay(render.current, render.proofScenes[i + 1], i,
                                           scaleOk, ffOk)
          IN  render' = [render EXCEPT !.steps = Append(render.steps, step),
                                       !.current = CurrentAfter(render.current, step)]
    /\ RenderFrame

\* applyProofOverlays returns (currentVideo, nil), also when proofScenes is empty
RenderOverlaysDone ==
    /\ render.stage = "overlay"
    /\ Len(render.steps) = Len(render.proofScenes)
    /\ render' = [render EXCEPT !.stage = "mix", !.proofVideo = render.current,
                                !.overlayErr = ""]
    /\ RenderFrame

\* Run, step 3: mixAudio
RenderMix ==
    /\ render.stage = "mix"
    /\ \E mixOk \in BOOLEAN :
          render' = [render EXCEPT !.stage = "mux", !.mixOk = mixOk,
                                   !.mixedAudio = MixedAfter(mixOk, NarrationFile)]
    /\ RenderFrame

\* Run, step 4: combineVideoAudio, then return
RenderMux ==
    /\ render.stage = "mux"
    /\ \E ffOk \in BOOLEAN :
          LET m == [called |-> TRUE, video |-> render.proofVideo,
                    audio |-> render.mixedAudio, ok |-> ffOk]
          IN  render' = IF ffOk
                        THEN [render EXCEPT !.stage = "ok", !.mux = m, !.final = FinalFile]
                        ELSE [render EXCEPT !.stage = "err", !.mux = m,
                                            !.err = "combine video+audio"]
    /\ RenderFrame

----------------------------------------------------------------------------
(* SpecRender: one call of Renderer.Run on any script *)

RenderTypes == {"proof", "dramatic"}

\* a scene as Renderer.Run may receive it: typed, with or without a visual file
RenderScene(index, type, visual) ==
    [Index |-> index, SceneType |-> type,
     VisualFile |-> IF ~visual THEN NoFile
                    ELSE IF type = "proof" THEN ProofFile(index, "")
                    ELSE [name |-> <<"kenburns", index>>, kind |-> "video", dur |-> 4,
                          exists |-> TRUE]]

RenderScripts ==
    UNION { { [k \in 1..n |-> RenderScene(k - 1, b[k].type, b[k].visual)] :
              b \in [1..n -> [type : RenderTypes, visual : BOOLEAN]] } : n \in 0..MaxScenes }

InitRender ==
    /\ scenes \in RenderScripts
    /\ pos = 0 /\ runState = "idle" /\ runErr = "" /\ calls = <<>>
    /\ declared = [k \in DOMAIN scenes |-> scenes[k].SceneType]
    /\ render = RenderAt("start")
    /\ IdleAM /\ IdleFetch /\ IdleProof
    /\ IdleWorkers /\ IdleMain /\ IdleCancel /\ IdleClip /\ IdleCall /\ IdleTTS

NextRender ==
    \/ RenderConcat
    \/ RenderOverlay
    \/ RenderOverlaysDone
    \/ RenderMix
    \/ RenderMux

SpecRender == InitRender /\ [][NextRender]_vars

----------------------------------------------------------------------------
(* Claims about Renderer, checked under SpecRender *)

WithVisual == {i \in DOMAIN scenes : HasVisual(scenes[i])}

\* the segment list holds exactly the visual files of the scenes, in scene order
SegmentsInSceneOrder ==
    /\ Len(render.concat.lines) = Cardinality(WithVisual)
    /\ \A i \in WithVisual :
          render.concat.lines[Cardinality({j \in WithVisual : j <= i})]
              = scenes[i].VisualFile.name

FailedBeforeTranscoding == ~render.concat.ok /\ ~render.concat.transcoded

\* C13 as stated: concatenateVisuals lists the scenes' visual files in script order
\* and returns an error without running the transcoder exactly when no scene has a
\* visual file.
C13_AsStated ==
    render.concat.called =>
        /\ SegmentsInSceneOrder
        /\ FailedBeforeTranscoding <=> (WithVisual = {})

\* C13, amended: concatenateVisuals lists the scenes' visual files in script order
\* and returns an error without running the transcoder exactly when no scene has a
\* visual file or the list file cannot be written.
C13_ConcatInOrder ==
    render.concat.called =>
        /\ SegmentsInSceneOrder
        /\ FailedBeforeTranscoding <=> (WithVisual = {} \/ ~render.concat.wrote)
        /\ (WithVisual = {}) => ~render.concat.wrote

C13_Witness ==
    /\ render.concat.ok
    /\ Len(render.concat.lines) >= 2
    /\ render.stage = "ok"

\* the track a step must be fed: the output of the latest successful earlier step,
\* or the concatenated track when there is none
RECURSIVE LatestTrack(_)
LatestTrack(j) ==
    IF j = 0 THEN SilentFile
    ELSE IF render.steps[j].ok THEN render.steps[j].out
    ELSE LatestTrack(j - 1)

ProofPositions == {i \in DOMAIN scenes : scenes[i].SceneType = "proof" /\ HasVisual(scenes[i])}

\* C14: applyProofOverlays takes the evidence scenes one at a time in scene order,
\* feeds each step the output of the latest successful step (the concatenated track
\* if none succeeded), keeps the current track when a step fails, and never returns
\* an error.
C14_OverlaysSequentialAndSkippable ==
    /\ render.overlayErr = ""
    /\ render.err # "proof overlays"
    /\ \A j \in DOMAIN render.steps :
          /\ render.steps[j].in = LatestTrack(j - 1)
          /\ render.steps[j].scene \in ProofPositions
          /\ Cardinality({i \in ProofPositions : i <= render.steps[j].scene}) = j
    /\ render.stage \in {"overlay"} => render.current = LatestTrack(Len(render.steps))
    /\ render.stage \in {"mix", "mux", "ok"} =>
          /\ Len(render.steps) = Cardinality(ProofPositions)
          /\ render.proofVideo = LatestTrack(Len(render.steps))

C14_Witness ==
    /\ render.stage = "ok"
    /\ Len(render.steps) = 2
    /\ render.steps[1].ok
    /\ ~render.steps[2].ok
    /\ render.proofVideo = OverlayFile(0)

\* C15: Renderer.Run returns an error, and no path, exactly when concatenation or the
\* final mux fails; failed overlays and a failed audio mix never make it fail, and
\* after a failed mix the mux gets the narration file itself as its audio input.
C15_RunFailsOnlyOnConcatOrMux ==
    /\ render.stage = "err" <=>
          \/ render.concat.called /\ ~render.concat.ok
          \/ render.mux.called /\ ~render.mux.ok
    /\ render.stage = "err" => render.final = <<>> /\ render.err # ""
    /\ render.stage = "ok" => render.final = FinalFile /\ render.err = ""
    /\ (render.mux.called /\ ~render.mixOk) => render.mux.audio = NarrationFile
    /\ (render.mux.called /\ render.mixOk) => render.mux.audio = MixedFile
    /\ (render.concat.ok /\ render.mux.called /\ render.mux.ok) => render.stage = "ok"

C15_Witness ==
    /\ render.stage = "ok"
    /\ ~render.mixOk
    /\ render.mux.audio = NarrationFile
    /\ \E j \in DOMAIN render.steps : ~render.steps[j].ok

----------------------------------------------------------------------------
(* SpecMain: main, the nine stages in sequence *)

\* the errors a stage may return
StageErrors == {"timeout", "refused"}

NoError == <<>>

\* fmt.Sprintf("Stage N Name: %v", err)
StageError(label, err) == <<label, err>>

PipelineStart ==
    [pc |-> "research", Error |-> NoError, ran |-> <<>>, warned |-> <<>>,
     srtFile |-> "", VideoFile |-> "", YouTubeURL |-> "", exit |-> -1]

\* where main goes after a fatal stage: on, or through return to the deferred function
AfterStageAlwaysOn(ok, next) == next

AfterStage(ok, next) == IF ok THEN next ELSE "deferred"

\* a stage whose error is recorded in state.Error and ends main
FatalStage(at, stage, label, next, video, url) ==
    /\ pipeline.pc = at
    /\ \E ok \in BOOLEAN, err \in StageErrors :
          pipeline' = [pipeline EXCEPT
                         !.pc = AfterStage(ok, next),
                         !.ran = Append(pipeline.ran, stage),
                         !.Error = IF ok THEN pipeline.Error ELSE StageError(label, err),
                         !.VideoFile = IF ok THEN video ELSE pipeline.VideoFile,
                         !.YouTubeURL = IF ok THEN url ELSE pipeline.YouTubeURL]
    /\ UNCHANGED <<amVars, runVars, fetchVars, proofVars, render, workers, cx, clipIn, clipOut, callIn, callOut, tts>>

\* a stage whose error is only logged
LoggedStage(at, stage, next, srt) ==
    /\ pipeline.pc = at
    /\ \E ok \in BOOLEAN :
          pipeline' = [pipeline EXCEPT
                         !.pc = next,
                         !.ran = Append(pipeline.ran, stage),
                         !.warned = IF ok THEN pipeline.warned
                                    ELSE Append(pipeline.warned, stage),
                         !.srtFile = IF ok THEN srt ELSE pipeline.srtFile]
    /\ UNCHANGED <<amVars, runVars, fetchVars, proofVars, render, workers, cx, clipIn, clipOut, callIn, callOut, tts>>

MainResearch == FatalStage("research", "research", "Stage 1 Research", "script", pipeline.VideoFile, pipeline.YouTubeURL)

MainScript == FatalStage("script", "script", "Stage 2 Script", "audio", pipeline.VideoFile, pipeline.YouTubeURL)

MainAudio == FatalStage("audio", "audio", "Stage 3 Audio", "visuals_init", pipeline.VideoFile, pipeline.YouTubeURL)

\* visuals.NewAssembler
MainVisualsInit == FatalStage("visuals_init", "visuals_init", "Stage 4 Visuals init", "visuals", pipeline.VideoFile, pipeline.YouTubeURL)

\* assembler.Run
MainVisuals == FatalStage("visuals", "visuals", "Stage 4 Visuals", "subtitles", pipeline.VideoFile, pipeline.YouTubeURL)

\* subGen.Run: on error srtFile = ""
MainSubtitles == LoggedStage("subtitles", "subtitles", "sfx", "subs.srt")

MainSFX == LoggedStage("sfx", "sfx", "render", pipeline.srtFile)

\* renderer.Run; state.VideoFile = finalVideo
MainRender ==
    FatalStage("render", "render", "Stage 7 Render", "burn", "final_video", pipeline.YouTubeURL)

\* subGen.BurnIntoVideo, only with an srt file; on error the unsubtitled video is kept
MainBurn ==
    /\ pipeline.pc = "burn"
    /\ IF pipeline.srtFile = ""
       THEN pipeline' = [pipeline EXCEPT !.pc = "metadata"]
       ELSE \E ok \in BOOLEAN :
               pipeline' = [pipeline EXCEPT
                              !.pc = "metadata",
                              !.ran = Append(pipeline.ran, "burn"),
                              !.warned = IF ok THEN pipeline.warned
                                         ELSE Append(pipeline.warned, "burn"),
                              !.VideoFile = IF ok THEN "final_subtitled"
                                            ELSE pipeline.VideoFile]
    /\ UNCHANGED <<amVars, runVars, fetchVars, proofVars, render, workers, cx, clipIn, clipOut, callIn, callOut, tts>>

MainMetadata == FatalStage("metadata", "metadata", "Stage 8 Metadata", "upload", pipeline.VideoFile, pipeline.YouTubeURL)

\* uploader.Run; state.YouTubeURL = videoURL; main returns
MainUpload ==
    FatalStage("upload", "upload", "Stage 9 Upload", "deferred",
               pipeline.VideoFile, "https://youtu.be/id")

\* the deferred function: save the state; os.Exit(1) if state.Error != ""
MainDeferred ==
    /\ pipeline.pc = "deferred"
    /\ pipeline' = [pipeline EXCEPT
                      !.pc = "exited",
                      !.exit = IF pipeline.Error # NoError THEN 1 ELSE 0]
    /\ UNCHANGED <<amVars, runVars, fetchVars, proofVars, render, workers, cx, clipIn, clipOut, callIn, callOut, tts>>

InitMain ==
    /\ pipeline = PipelineStart
    /\ IdleAM /\ IdleRun /\ IdleFetch /\ IdleProof
    /\ IdleRender /\ IdleWorkers /\ IdleCancel /\ IdleClip /\ IdleCall /\ IdleTTS

NextMain ==
    \/ MainResearch
    \/ MainScript
    \/ MainAudio
    \/ MainVisualsInit
    \/ MainVisuals
    \/ MainSubtitles
    \/ MainSFX
    \/ MainRender
    \/ MainBurn
    \/ MainMetadata
    \/ MainUpload
    \/ MainDeferred

SpecMain == InitMain /\ [][NextMain]_vars

FatalLabels ==
    [research |-> "Stage 1 Research", script |-> "Stage 2 Script", audio |-> "Stage 3 Audio",
     visuals_init |-> "Stage 4 Visuals init", visuals |-> "Stage 4 Visuals",
     render |-> "Stage 7 Render", metadata |-> "Stage 8 Metadata", upload |-> "Stage 9 Upload"]

LastRan == pipeline.ran[Len(pipeline.ran)]

\* C16: when a fatal stage (research, script, audio, visuals, render, metadata,
\* upload) fails, the recorded error names that stage, no later stage runs and the
\* run ends as failed; a failed subtitle or SFX stage records no error and the render
\* stage still runs after it.
C16_FatalStagesStopTheRun ==
    /\ pipeline.Error # NoError =>
          /\ pipeline.pc \in {"deferred", "exited"}
          /\ LastRan \in DOMAIN FatalLabels
          /\ pipeline.Error[1] = FatalLabels[LastRan]
    /\ pipeline.pc = "exited" => (pipeline.exit = 1 <=> pipeline.Error # NoError)
    /\ pipeline.pc = "exited" => (pipeline.YouTubeURL # "" <=> pipeline.Error = NoError)
    /\ (pipeline.ran # <<>> /\ LastRan = "subtitles") =>
          pipeline.pc = "sfx" /\ pipeline.Error = NoError
    /\ (pipeline.ran # <<>> /\ LastRan = "sfx") =>
          pipeline.pc = "render" /\ pipeline.Error = NoError
    /\ \A k \in DOMAIN pipeline.warned : pipeline.warned[k] \in {"subtitles", "sfx", "burn"}

C16_Witness ==
    /\ pipeline.pc = "exited"
    /\ pipeline.exit = 1
    /\ pipeline.Error[1] = "Stage 7 Render"
    /\ pipeline.warned = <<"subtitles", "sfx">>

----------------------------------------------------------------------------
(* SpecCancel: Assembler.Run resolves one scene while ctx may be cancelled *)
(* A call made with ctx (http request with context, exec.CommandContext) is not   *)
(* started once ctx is done and is ended with an error when ctx is cancelled      *)
(* while it runs; a call made without ctx (exec.Command) ignores the signal.      *)

CxTypes == {"cinematic", "dramatic", "proof"}

\* an external call started: which one, and whether ctx was already cancelled
Started(fn) == [fn |-> fn, afterCancel |-> cx.cancelled]

CxStart(type) ==
    [type |-> type,
     pc |-> CASE type = "cinematic" -> "probe"
              [] type = "dramatic" -> "fetch"
              [] OTHER -> "proof",
     cancelled |-> FALSE, attempt |-> 1, started |-> <<>>, running |-> "",
     img |-> <<>>, VisualFile |-> <<>>, setAfterCancel |-> FALSE, err |-> ""]

CxFrame == UNCHANGED <<amVars, runVars, fetchVars, proofVars,
                       render, workers, pipeline, clipIn, clipOut, callIn, callOut, tts>>

\* the run-scoped cancellation signal fires
CxCancel ==
    /\ ~cx.cancelled
    /\ cx.pc \notin {"done", "err"}
    /\ cx' = [cx EXCEPT !.cancelled = TRUE]
    /\ CxFrame

\* whether a call that takes ctx gets started: not once ctx is done
StartsWithCtx(cancelled) == ~cancelled

\* proof case: FetchProofImage (requests made with ctx), here a scene whose image is found
CxProof ==
    /\ cx.pc = "proof"
    /\ IF StartsWithCtx(cx.cancelled)
       THEN \E ok \in BOOLEAN :
               cx' = [cx EXCEPT !.started = Append(cx.started, Started("FetchProofImage")),
                                !.pc = IF ok THEN "credit" ELSE "fetch",
                                !.img = IF ok THEN <<"proof">> ELSE <<>>]
       ELSE cx' = [cx EXCEPT !.pc = "fetch"]
    /\ CxFrame

\* Fetch: one pass of the retry loop: downloadImage(ctx, ...), then time.Sleep
CxFetchAttempt ==
    /\ cx.pc = "fetch"
    /\ cx.attempt <= MaxAttempts
    /\ IF StartsWithCtx(cx.cancelled)
       THEN \E ok \in BOOLEAN :
               cx' = [cx EXCEPT !.started = Append(cx.started, Started("downloadImage")),
                                !.pc = IF ok THEN "transform" ELSE "fetch",
                                !.attempt = IF ok THEN cx.attempt ELSE cx.attempt + 1,
                                !.img = IF ok THEN <<"dramatic">> ELSE <<>>]
       ELSE cx' = [cx EXCEPT !.attempt = cx.attempt + 1]
    /\ CxFrame

\* Fetch gave up: createFallbackFrame runs exec.Command("ffmpeg", ...), without ctx
CxFallback ==
    /\ cx.pc = "fetch"
    /\ cx.attempt > MaxAttempts
    /\ cx' = [cx EXCEPT !.started = Append(cx.started, Started("createFallbackFrame")),
                        !.pc = "transform", !.img = <<"fallback">>]
    /\ CxFrame

\* prepareVideoClip: getVideoDuration runs exec.Command("ffprobe", ...), without ctx
CxProbe ==
    /\ cx.pc = "probe"
    /\ cx' = [cx EXCEPT !.started = Append(cx.started, Started("getVideoDuration")),
                        !.pc = "transform", !.img = <<"clip">>]
    /\ CxFrame

\* exec.CommandContext(ctx, "ffmpeg", ...).Run(), start: prepareVideoClip,
\* prepareImageWithKenBurns or addSourceCredit
CxFfmpegStart ==
    /\ cx.pc \in {"transform", "credit"}
    /\ cx.running = ""
    /\ IF StartsWithCtx(cx.cancelled)
       THEN cx' = [cx EXCEPT !.started = Append(cx.started, Started("ffmpeg")),
                             !.running = "ffmpeg"]
       ELSE IF cx.pc = "credit"
       THEN cx' = [cx EXCEPT !.pc = "done", !.VisualFile = cx.img,
                             !.setAfterCancel = cx.cancelled]
       ELSE cx' = [cx EXCEPT !.pc = "err", !.err = "ffmpeg"]
    /\ CxFrame

\* ... and its end: killed when ctx was cancelled meanwhile
CxFfmpegFinish ==
    /\ cx.running = "ffmpeg"
    /\ \E ffOk \in BOOLEAN :
          LET ok == ffOk /\ ~cx.cancelled
          IN  cx' = IF cx.pc = "credit"
                    THEN [cx EXCEPT !.running = "", !.pc = "done",
                                    !.VisualFile = IF ok THEN <<"proof_credited">> ELSE cx.img,
                                    !.setAfterCancel = cx.cancelled]
                    ELSE IF ok
                    THEN [cx EXCEPT !.running = "", !.pc = "done",
                                    !.VisualFile = <<"prepared">>,
                                    !.setAfterCancel = cx.cancelled]
                    ELSE [cx EXCEPT !.running = "", !.pc = "err", !.err = "ffmpeg"]
    /\ CxFrame

InitCancel ==
    /\ cx \in {CxStart(type) : type \in CxTypes}
    /\ IdleAM /\ IdleRun /\ IdleFetch /\ IdleProof
    /\ IdleRender /\ IdleWorkers /\ IdleMain /\ IdleClip /\ IdleCall /\ IdleTTS

NextCancel ==
    \/ CxCancel
    \/ CxProof
    \/ CxFetchAttempt
    \/ CxFallback
    \/ CxProbe
    \/ CxFfmpegStart
    \/ CxFfmpegFinish

SpecCancel == InitCancel /\ [][NextCancel]_vars

\* C17: once the cancellation signal has fired, no external network or subprocess
\* call is started any more (no retry attempt, no fallback-frame or duration-probe
\* subprocess), and no VisualFile is set by a step that was cancelled.
C17_NothingStartsAfterCancel ==
    /\ \A k \in DOMAIN cx.started : ~cx.started[k].afterCancel
    /\ ~cx.setAfterCancel

----------------------------------------------------------------------------
(* SpecVideo: main's stages 4 and 7 on one script: Assembler.Run, then Renderer.Run *)

MaxVideoScenes == 3

VideoTypes == {"cinematic", "dramatic", "proof"}

\* scripts of the three documented scene types, every scene with a prompt and a narration length
VideoScripts ==
    UNION { { [k \in 1..n |-> Scene(k - 1, t[k], "a dark alley", 4)] :
              t \in [1..n -> VideoTypes] } : n \in 0..MaxVideoScenes }

\* a clip library of one file
VideoPools == {m \in TagMaps : Cardinality(DOMAIN m) = 1}

InitVideo ==
    /\ ledgerFile = EmptyLog
    /\ \E tagMap \in VideoPools : NewAssetManager(ledgerFile, tagMap, ThisRun, TRUE)
    /\ returned = <<>>
    /\ lastPick = NoPick
    /\ scenes \in VideoScripts
    /\ declared = [k \in DOMAIN scenes |-> scenes[k].SceneType]
    /\ pos = 1
    /\ runState = "entered"
    /\ runErr = ""
    /\ calls = <<>>
    /\ render = RenderAt("wait")
    /\ IdleFetch /\ IdleProof
    /\ IdleWorkers /\ IdleMain /\ IdleCancel /\ IdleClip /\ IdleCall /\ IdleTTS

\* main, stage 7: renderer.Run is reached only after assembler.Run returned nil
VideoRender ==
    /\ runState = "ok"
    /\ render.stage = "wait"
    /\ render' = RenderAt("start")
    /\ RenderFrame

NextVideo ==
    \/ RunEnter
    \/ RunCinematic
    \/ RunDramatic
    \/ RunProof
    \/ RunReturn
    \/ VideoRender
    \/ RenderConcat
    \/ RenderOverlay
    \/ RenderOverlaysDone
    \/ RenderMix
    \/ RenderMux

SpecVideo == InitVideo /\ [][NextVideo]_vars

----------------------------------------------------------------------------
(* Claims about resolution followed by rendering, checked under SpecVideo *)

OverlaysCollected == render.stage \in {"mix", "mux", "ok"}

\* the scenes an overlay step was run for, and those whose step put the overlay in the track
StepScenes == {render.steps[j].scene : j \in DOMAIN render.steps}

OverlaidScenes == {render.steps[j].scene : j \in {k \in DOMAIN render.steps : render.steps[k].ok}}

StillProof == {i \in DOMAIN scenes : scenes[i].SceneType = "proof"}

Downgraded == {i \in DOMAIN scenes : declared[i] = "proof" /\ scenes[i].SceneType # "proof"}

\* C18 as stated: the evidence overlay is applied for a scene if and only if the
\* scene is still typed proof after resolution.
C18_AsStated == OverlaysCollected => OverlaidScenes = StillProof

\* C18, amended: an evidence overlay step is run for a scene if and only if the scene
\* is still typed proof after resolution, and the overlay (slide-in and dimming) is
\* in the track exactly for the steps that succeeded; a scene declared proof that
\* was downgraded never receives an overlay step.
C18_OverlayOnlyIfStillProof ==
    /\ render.stage \in {"overlay", "mix", "mux", "ok"} =>
          /\ StepScenes \subseteq StillProof
          /\ StepScenes \cap Downgraded = {}
          /\ \A j \in DOMAIN render.steps :
                render.steps[j].ok <=> (render.steps[j].dims /\ render.steps[j].image)
    /\ OverlaysCollected => StepScenes = StillProof

C18_Witness ==
    /\ render.stage = "ok"
    /\ Downgraded # {}
    /\ StillProof # {}
    /\ OverlaidScenes = StillProof

\* the scenario of C19, run to the end: cinematic, dramatic, proof; one clip; for the
\* proof scene FetchProofImage failed and Fetch failed; both stages returned nil
C19_Scenario ==
    /\ declared = <<"cinematic", "dramatic", "proof">>
    /\ Cardinality(DOMAIN tags) = 1
    /\ runState = "ok"
    /\ Called("FetchProofImage", FALSE)
    /\ Called("Fetch", FALSE)
    /\ render.stage = "ok"

\* the dimmed windows of the final track that belong to a scene and carry no image
DimmedWithoutImage(i) ==
    {j \in DOMAIN render.steps :
        render.steps[j].scene = i /\ render.steps[j].dims /\ ~render.steps[j].image}

\* C19: in the scenario (cinematic, dramatic, proof; pool of one clip; evidence
\* lookup and image generation both fail for the proof scene) the proof scene ends on
\* the fallback frame, the concatenated track has exactly 3 segments, and the
\* timeline holds one dimmed window for that scene with no overlay image.
C19_FallbackSceneGetsDimmedWindow ==
    C19_Scenario =>
        /\ Called("createFallbackFrame", TRUE)
        /\ scenes[3].VisualFile.name = <<"kenburns", 2>>
        /\ Len(render.concat.lines) = 3
        /\ Cardinality(DimmedWithoutImage(3)) = 1

----------------------------------------------------------------------------
(* SpecClip: one call of prepareVideoClip, any narration length, any source clip *)

MaxClipSeconds == 6

\* scene.AudioDurationSec: unset (0), nonsense (-1), or a length in whole seconds
NarrationDurs == -1..MaxClipSeconds

\* the source clip: its length, and whether getVideoDuration can measure it
SourceClips == [ok : BOOLEAN, dur : 1..MaxClipSeconds]

NoClipCall == [called |-> FALSE]

InitClip ==
    /\ clipIn \in [dur : NarrationDurs, probe : SourceClips, ffOk : BOOLEAN]
    /\ clipOut = NoClipCall
    /\ IdleAM /\ IdleRun /\ IdleFetch /\ IdleProof
    /\ IdleRender /\ IdleWorkers /\ IdleMain /\ IdleCancel /\ IdleCall /\ IdleTTS

ClipCall ==
    /\ ~clipOut.called
    /\ clipOut' = [called |-> TRUE,
                   res |-> prepareVideoClip(Scene(0, "cinematic", "", clipIn.dur),
                                            clipIn.probe, clipIn.ffOk)]
    /\ UNCHANGED <<clipIn, amVars, runVars, fetchVars, proofVars,
                   render, workers, pipeline, cx, callIn, callOut, tts>>

NextClip == ClipCall

SpecClip == InitClip /\ [][NextClip]_vars

\* C20: for every source clip length and every narration length, measurable or not,
\* positive or not, prepareVideoClip asks ffmpeg for an output of exactly the scene's
\* AudioDurationSec and supplies at least that much source material.
C20_ClipCoversNarration ==
    clipOut.called =>
        /\ clipOut.res.t = clipIn.dur
        /\ clipOut.res.supplied >= clipOut.res.t

----------------------------------------------------------------------------
(* SpecZoom: the zoompan request of prepareImageWithKenBurns, any duration, fps, zoom *)
(* Durations are in tenths of a second, zoom factors in thousandths, zoom values   *)
(* and the step in millionths: the filter prints the step with %.6f and the        *)
(* factor with %.3f.                                                               *)

MaxDurTenths == 12

Micro == 1000000

NoCall == [called |-> FALSE]

\* cfg.Visuals.FPS (0 when config.yaml has no fps key)
FrameRates == {0, 1, 2, 5}

\* cfg.Visuals.KenBurnsZoomFactor, in thousandths
ZoomFactors == {1000, 1080, 1500}

\* duration in tenths: scene.AudioDurationSec, or 5.0 when that is not positive
DurationTenths(audioTenths) == IF audioTenths <= 0 THEN 10 * DefaultDurationSec ELSE audioTenths

\* fmt.Sprintf("%.6f", x) of x = num/den: the nearest millionth
Rounded(num, den) == (2 * num + den) \div (2 * den)

\* totalFrames := int(duration * float64(fps)); zoomStep := (zoom - 1.0) / float64(totalFrames);
\* with totalFrames = 0 the quotient is +Inf or NaN and no number is printed
zoomFilter(audioTenths, fps, zoomMilli) ==
    LET totalFrames == (DurationTenths(audioTenths) * fps) \div 10
    IN  [totalFrames |-> totalFrames,
         finite |-> totalFrames > 0,
         zoomStep |-> IF totalFrames > 0
                      THEN Rounded((zoomMilli - 1000) * 1000, totalFrames)
                      ELSE 0,
         zmax |-> zoomMilli * 1000]

RECURSIVE ZoomAt(_, _)
\* zoompan z='min(zoom+zoomStep,zmax)': zoom is 1 before the first frame, then the last value
ZoomAt(f, k) ==
    IF k = 0 THEN Micro ELSE Min(ZoomAt(f, k - 1) + f.zoomStep, f.zmax)

InitZoom ==
    /\ callIn \in [dur : 0..MaxDurTenths, fps : FrameRates, zoom : ZoomFactors]
    /\ callOut = NoCall
    /\ IdleAM /\ IdleRun /\ IdleFetch /\ IdleProof
    /\ IdleRender /\ IdleWorkers /\ IdleMain /\ IdleCancel /\ IdleClip /\ IdleTTS

ZoomCall ==
    /\ ~callOut.called
    /\ callOut' = [called |-> TRUE, f |-> zoomFilter(callIn.dur, callIn.fps, callIn.zoom)]
    /\ UNCHANGED <<callIn, amVars, runVars, fetchVars, proofVars,
                   render, workers, pipeline, cx, clipIn, clipOut, tts>>

NextZoom == ZoomCall

SpecZoom == InitZoom /\ [][NextZoom]_vars

\* C21: in prepareImageWithKenBurns the zoom starts from 1.0, never exceeds the zoom
\* factor Z, and equals exactly Z on frame totalFrames, the last frame, for every
\* duration, frame rate and zoom factor, totalFrames = 0 included.
C21_ZoomReachesFactorOnLastFrame ==
    callOut.called =>
        /\ callOut.f.finite
        /\ ZoomAt(callOut.f, 0) = Micro
        /\ \A k \in 1..callOut.f.totalFrames : ZoomAt(callOut.f, k) <= callOut.f.zmax
        /\ ZoomAt(callOut.f, callOut.f.totalFrames) = callOut.f.zmax

----------------------------------------------------------------------------
(* Claims about prepareVideoClip's loop count, checked under SpecClip *)

\* ceil(a / b) for positive b
Ceil(a, b) == (a + b - 1) \div b

\* the measured source clip is shorter than the target: the branch that loops
LoopBranch == clipOut.called /\ clipIn.probe.ok /\ clipIn.probe.dur < clipOut.res.t

\* C24: when the source clip is shorter than the target duration, the loop count
\* passed to ffmpeg (-stream_loop) equals ceil(target/source) + 2, for every pair of
\* durations, multiples of the source length or not.
C24_LoopCountIsCeilPlusTwo ==
    LoopBranch => clipOut.res.loops = Ceil(clipOut.res.t, clipIn.probe.dur) + 2

----------------------------------------------------------------------------
(* SpecOverlay: the filter applyOneProofOverlay builds, any scene start and hold *)
(* Times are in tenths of a second; positions are pixels times animDur, so that     *)
(* the quotient (t - start) / animDur of the expression needs no fraction.          *)

MaxStartTenths == 8

FrameWidth == 1920

\* centerX := (1920 - proofW) / 2
CenterX == 480

\* scene.ProofDurationSec: negative, unset, or given
SceneHolds == {-10, 0, 20, 30}

\* cfg.Visuals.ProofHoldSecDefault and cfg.Visuals.ProofAnimationDurationSec
HoldDefaults == {0, 40}

AnimDurs == {4, 10}

\* holdDuration := scene.ProofDurationSec; if holdDuration <= 0 { holdDuration = default }
HoldDuration(sceneHold, default) == IF sceneHold <= 0 THEN default ELSE sceneHold

\* endTime := startTime + holdDuration + animDur*2
EndTimeOneAnim(startTime, holdDuration, animDur) == startTime + holdDuration + animDur

EndTime(startTime, holdDuration, animDur) == startTime + holdDuration + animDur * 2

\* the numbers applyOneProofOverlay writes into brightnessExpr, xExpr and enable=
proofFilter(startTime, sceneHold, default, animDur) ==
    LET holdDuration == HoldDuration(sceneHold, default)
        endTime == EndTime(startTime, holdDuration, animDur)
        slideOutStart == startTime + animDur + holdDuration
    IN  [startTime |-> startTime, holdDuration |-> holdDuration, animDur |-> animDur,
         endTime |-> endTime,
         dim |-> <<startTime, endTime>>,
         enable |-> <<startTime, endTime>>,
         slideInEnd |-> startTime + animDur,
         slideOutStart |-> slideOutStart,
         slideOutEnd |-> slideOutStart + animDur]

\* between(t, a, b)
Between(t, window) == window[1] <= t /\ t <= window[2]

\* slideInExpr: if(lt(t-start,animDur), 1920+(centerX-1920)*((t-start)/animDur), centerX),
\* times animDur
slideInExpr(f, t) ==
    IF t - f.startTime < f.animDur
    THEN FrameWidth * f.animDur + (CenterX - FrameWidth) * (t - f.startTime)
    ELSE CenterX * f.animDur

\* xExpr: if(lt(t,start+animDur), slideInExpr,
\*           if(lt(t,slideOutStart+animDur), centerX+(1920-centerX)*((t-slideOutStart)/animDur), 1920)),
\* times animDur
xExpr(f, t) ==
    IF t < f.slideInEnd THEN slideInExpr(f, t)
    ELSE IF t < f.slideOutEnd
         THEN CenterX * f.animDur + (FrameWidth - CenterX) * (t - f.slideOutStart)
         ELSE FrameWidth * f.animDur

InitOverlay ==
    /\ callIn \in [start : 0..MaxStartTenths, hold : SceneHolds,
                   default : HoldDefaults, anim : AnimDurs]
    /\ callOut = NoCall
    /\ IdleAM /\ IdleRun /\ IdleFetch /\ IdleProof
    /\ IdleRender /\ IdleWorkers /\ IdleMain /\ IdleCancel /\ IdleClip /\ IdleTTS

OverlayCall ==
    /\ ~callOut.called
    /\ callOut' = [called |-> TRUE,
                   f |-> proofFilter(callIn.start, callIn.hold, callIn.default, callIn.anim)]
    /\ UNCHANGED <<callIn, amVars, runVars, fetchVars, proofVars,
                   render, workers, pipeline, cx, clipIn, clipOut, tts>>

NextOverlay == OverlayCall

SpecOverlay == InitOverlay /\ [][NextOverlay]_vars

\* the hold the claim speaks of, and the instants of the timeline looked at
Hold == IF callIn.hold <= 0 THEN callIn.default ELSE callIn.hold

WindowEnd == callIn.start + Hold + 2 * callIn.anim

Instants == 0..(WindowEnd + 5)

\* C22: with hold the scene's hold duration (the configured default when unset or
\* not positive), the window end equals start + hold + 2*animDuration, the overlay is
\* enabled and the background is dimmed exactly for t in [start, end], and every time
\* breakpoint of the position expression lies within [start, end].
C22_OverlayWindow ==
    callOut.called =>
        /\ callOut.f.endTime = WindowEnd
        /\ \A t \in Instants :
              /\ Between(t, callOut.f.enable) <=> (callIn.start <= t /\ t <= WindowEnd)
              /\ Between(t, callOut.f.dim) <=> (callIn.start <= t /\ t <= WindowEnd)
        /\ \A bp \in {callOut.f.startTime, callOut.f.slideInEnd,
                      callOut.f.slideOutStart, callOut.f.slideOutEnd} :
              callIn.start <= bp /\ bp <= WindowEnd

C22_Witness ==
    /\ callOut.called
    /\ callIn.hold <= 0
    /\ callIn.start > 0
    /\ callOut.f.holdDuration = callIn.default
    /\ callOut.f.slideOutEnd = callOut.f.endTime

Centre == CenterX * callIn.anim

RightEdge == FrameWidth * callIn.anim

\* C23: the overlay's horizontal position is the right frame edge at t = start, moves
\* monotonically to the centre over [start, start+animDuration], is exactly the
\* centre for every t in [start+animDuration, start+animDuration+hold], then moves
\* monotonically back to the right edge, reached at t = start+hold+2*animDuration.
C23_SlideInHoldSlideOut ==
    callOut.called =>
        LET f == callOut.f
            s == callIn.start
            a == callIn.anim
        IN  /\ xExpr(f, s) = RightEdge
            /\ \A t \in s..(s + a - 1) : xExpr(f, t + 1) <= xExpr(f, t)
            /\ \A t \in (s + a)..(s + a + Hold) : xExpr(f, t) = Centre
            /\ \A t \in (s + a + Hold)..(WindowEnd - 1) : xExpr(f, t) <= xExpr(f, t + 1)
            /\ xExpr(f, WindowEnd) = RightEdge

----------------------------------------------------------------------------
(* SpecScore: one call of matchScore, any required tags, clip tags and mood *)

MaxTags == 2

\* the words a scene's AssetTags are made of
TagWords == {"dark", "Dark", "street"}

\* scene.AssetTags: any list of up to MaxTags words, repeats allowed
RequiredLists == UNION {[1..n -> TagWords] : n \in 0..MaxTags}

\* scene.Mood
ScoreMoods == {"", "tense", "Tense"}

InitScore ==
    /\ callIn \in [required : RequiredLists, clipTags : Range(ClipTagTable), mood : ScoreMoods]
    /\ callOut = NoCall
    /\ IdleAM /\ IdleRun /\ IdleFetch /\ IdleProof
    /\ IdleRender /\ IdleWorkers /\ IdleMain /\ IdleCancel /\ IdleClip /\ IdleTTS

ScoreCall ==
    /\ ~callOut.called
    /\ callOut' = [called |-> TRUE,
                   score |-> matchScore(callIn.required, callIn.clipTags, callIn.mood)]
    /\ UNCHANGED <<callIn, amVars, runVars, fetchVars, proofVars,
                   render, workers, pipeline, cx, clipIn, clipOut, tts>>

NextScore == ScoreCall

SpecScore == InitScore /\ [][NextScore]_vars

\* the clip's tag set and the distinct required tags, both without regard to case
ClipTagSet == {ToLower(callIn.clipTags[k]) : k \in DOMAIN callIn.clipTags}

DistinctRequired == {ToLower(callIn.required[k]) : k \in DOMAIN callIn.required}

\* C25: matchScore equals 10 times the number of distinct required tags that occur in
\* the clip's tag set, compared case-insensitively, plus 15 if the clip's tag set
\* contains the scene's mood, for all tag lists, repeated required tags and an empty
\* mood included.
C25_ScoreCountsDistinctTags ==
    callOut.called =>
        callOut.score = 10 * Cardinality(DistinctRequired \cap ClipTagSet)
                        + (IF ToLower(callIn.mood) \in ClipTagSet THEN 15 ELSE 0)

----------------------------------------------------------------------------
(* SpecPick: one call of Pick on an AssetManager that has already used any part of *)
(* a pool large enough for the top three to leave a clip out                       *)

MaxPickClips == 4

PickPools == {[f \in 1..k |-> ClipTagsOf(f)] : k \in 0..MaxPickClips}

RECURSIVE InOrder(_)
\* the files of a set as a list, in the order they were picked (here: ascending)
InOrder(S) ==
    IF S = {} THEN <<>>
    ELSE LET m == CHOOSE x \in S : \A y \in S : x <= y
         IN  <<m>> \o InOrder(S \ {m})

\* the ledger of a run that has used the files of S
LogOf(S) == IF S = {} THEN EmptyLog ELSE LogPut(EmptyLog, ThisRun, InOrder(S))

InitPick ==
    /\ tags \in PickPools
    /\ callIn \in [scene : PickScenes, before : SUBSET (1..MaxPickClips)]
    /\ callIn.before \subseteq DOMAIN tags
    /\ usedInRun = callIn.before
    /\ usageLog = LogOf(callIn.before)
    /\ ledgerFile = LogOf(callIn.before)
    /\ runID = ThisRun
    /\ returned = [k \in 1..Cardinality(callIn.before) |-> ClipPath(InOrder(callIn.before)[k])]
    /\ lastPick = NoPick
    /\ callOut = NoCall
    /\ IdleRun /\ IdleFetch /\ IdleProof
    /\ IdleRender /\ IdleWorkers /\ IdleMain /\ IdleCancel /\ IdleClip /\ IdleTTS

\* Pick(scene); the candidates of its first loop are kept for inspection
PickCall ==
    /\ ~callOut.called
    /\ \E order \in Perms(DOMAIN tags), r \in 0..(MaxPickClips - 1), writeOk \in BOOLEAN :
          /\ Pick(callIn.scene, order, r, writeOk)
          /\ callOut' = [called |-> TRUE,
                         candidates |-> ScoreFiles(order, Len(order), tags, usedInRun,
                                                   callIn.scene)]
    /\ UNCHANGED <<callIn, runVars, fetchVars, proofVars,
                   render, workers, pipeline, cx, clipIn, clipOut, tts>>

NextPick == PickCall

SpecPick == InitPick /\ [][NextPick]_vars

\* the clips not yet used when Pick was called, and the score of each for the scene
UnusedBefore == DOMAIN tags \ callIn.before

ScoreOf(file) == matchScore(callIn.scene.AssetTags, tags[file], callIn.scene.Mood)

HigherThanPick == {f \in UnusedBefore : ScoreOf(f) > ScoreOf(lastPick.file)}

----------------------------------------------------------------------------
(* SpecMix: the ffmpeg request Renderer.mixAudio builds, any script *)
(* TimestampStart is in half milliseconds, so that int(TimestampStart * 1000)      *)
(* has a fraction to drop.                                                         *)

MaxSfxScenes == 3

\* scene.TimestampStart, in half milliseconds
SfxStarts == {0, 3, 2469}

SfxFile(index) == <<"sfx", index>>

\* scenes as mixAudio reads them: SFXFile ("" when the scene has none), TimestampStart
SfxScripts ==
    UNION { { [k \in 1..n |-> [Index |-> k - 1,
                               SFXFile |-> IF b[k].sfx THEN SfxFile(k - 1) ELSE <<>>,
                               TimestampStart |-> b[k].start]] :
              b \in [1..n -> [sfx : BOOLEAN, start : SfxStarts]] } : n \in 0..MaxSfxScenes }

\* delayMs := int(scene.TimestampStart * 1000)
delayMsNone(timestampStart) == 0

delayMs(timestampStart) == timestampStart \div 2

RECURSIVE sfxLoop(_, _)
\* the loop over script.Scenes: sfxInputs ("-i", file) and sfxFilters
\* ("[idx:a]adelay=ms|ms[sfxidx]"), inputIdx counting from 1
sfxLoop(list, n) ==
    IF n = 0 THEN [inputs |-> <<>>, filters |-> <<>>]
    ELSE LET rest == sfxLoop(list, n - 1)
             inputIdx == Len(rest.inputs) + 1
         IN  IF list[n].SFXFile = <<>> THEN rest
             ELSE [inputs |-> Append(rest.inputs, list[n].SFXFile),
                   filters |-> Append(rest.filters,
                                      [in |-> inputIdx,
                                       delay |-> delayMs(list[n].TimestampStart),
                                       out |-> inputIdx])]

\* mixAudio: without SFX a plain copy of the narration; else narration plus the SFX
\* inputs, the adelay filters, and amix over [0:a] and [sfx1]..[sfxN]
mixAudio(list, narrationFile) ==
    LET loop == sfxLoop(list, Len(list))
        mixInputs == <<0>> \o [i \in 1..Len(loop.filters) |-> i]
    IN  IF Len(loop.inputs) = 0
        THEN [copy |-> TRUE, inputs |-> <<narrationFile>>, filters |-> <<>>,
              mixInputs |-> <<>>, amix |-> 0]
        ELSE [copy |-> FALSE, inputs |-> <<narrationFile>> \o loop.inputs,
              filters |-> loop.filters, mixInputs |-> mixInputs, amix |-> Len(mixInputs)]

InitMix ==
    /\ callIn \in SfxScripts
    /\ callOut = NoCall
    /\ IdleAM /\ IdleRun /\ IdleFetch /\ IdleProof
    /\ IdleRender /\ IdleWorkers /\ IdleMain /\ IdleCancel /\ IdleClip /\ IdleTTS

MixCall ==
    /\ ~callOut.called
    /\ callOut' = [called |-> TRUE, cmd |-> mixAudio(callIn, NarrationFile)]
    /\ UNCHANGED <<callIn, amVars, runVars, fetchVars, proofVars,
                   render, workers, pipeline, cx, clipIn, clipOut, tts>>

NextMix == MixCall

SpecMix == InitMix /\ [][NextMix]_vars

\* the scenes that have a sound-effect file, and the rank of one among them
WithSfx == {i \in DOMAIN callIn : callIn[i].SFXFile # <<>>}

SfxRank(i) == Cardinality({j \in WithSfx : j <= i})

\* C27: mixAudio adds exactly one mix input per scene that has a sound-effect file, in
\* scene order, each delayed by that scene's TimestampStart in whole milliseconds and
\* each wired to its own scene's file; scenes without one add nothing, so the mix has
\* 1 + (number of scenes with SFX) inputs.
C27_OneDelayedInputPerSfxScene ==
    callOut.called =>
        LET cmd == callOut.cmd
        IN  /\ Len(cmd.inputs) = 1 + Cardinality(WithSfx)
            /\ cmd.inputs[1] = NarrationFile
            /\ Len(cmd.filters) = Cardinality(WithSfx)
            /\ \A i \in WithSfx :
                  /\ cmd.inputs[SfxRank(i) + 1] = callIn[i].SFXFile
                  /\ cmd.filters[SfxRank(i)].in = SfxRank(i)
                  /\ 2 * cmd.filters[SfxRank(i)].delay <= callIn[i].TimestampStart
                  /\ callIn[i].TimestampStart < 2 * (cmd.filters[SfxRank(i)].delay + 1)
                  /\ cmd.mixInputs[SfxRank(i) + 1] = cmd.filters[SfxRank(i)].out
            /\ ~cmd.copy => cmd.amix = 1 + Cardinality(WithSfx) /\ cmd.mixInputs[1] = 0
            /\ cmd.copy <=> WithSfx = {}

C27_Witness ==
    /\ callOut.called
    /\ Len(callIn) = 3
    /\ WithSfx = {1, 3}
    /\ callOut.cmd.filters[2].delay = 1234
    /\ callOut.cmd.amix = 3

----------------------------------------------------------------------------
(* Claims about the credit burned into evidence stills, checked under SpecVideo *)

\* the scenes handed to the renderer as evidence scenes
EvidenceAtRender == IF render.stage = "wait" THEN {} ELSE StillProof

CreditBurns == {k \in DOMAIN calls : calls[k].fn = "addSourceCredit"}

\* C28: every scene still typed proof after resolution has as its visual the still
\* with the source credit burned in, made by exactly one credit-burn step for that
\* scene; no scene reaches the renderer as an evidence scene with an uncredited image.
C28_EvidenceStillIsCredited ==
    /\ \A i \in EvidenceAtRender : scenes[i].VisualFile.name[1] = "proof_credited"
    /\ (runState = "running" /\ pos > 1 /\ scenes[pos - 1].SceneType = "proof") =>
          /\ Cardinality(CreditBurns) = 1
          /\ \A k \in CreditBurns : calls[k].ok /\ scenes[pos - 1].VisualFile = calls[k].out

----------------------------------------------------------------------------
(* Claims about the alignment of picture and narration, checked under SpecVideo *)

RECURSIVE recalcTimestamps(_, _)
\* recalcTimestamps: TimestampStart of scene i, the narration lengths before it summed
recalcTimestamps(list, i) ==
    IF i <= 1 THEN 0
    ELSE recalcTimestamps(list, i - 1) + list[i - 1].AudioDurationSec

RECURSIVE SegmentStart(_, _)
\* where the segment of scene i starts in the concatenated track
SegmentStart(list, i) ==
    IF i <= 1 THEN 0
    ELSE SegmentStart(list, i - 1) + list[i - 1].VisualFile.dur

\* C29: in the concatenated video track there is one segment per scene, and the
\* segment of scene i starts at that scene's TimestampStart: the segments before it
\* are together as long as the narration of the scenes before it.
C29_SegmentsStartAtTimestampStart ==
    render.concat.ok =>
        /\ Len(render.concat.lines) = Len(scenes)
        /\ \A i \in DOMAIN scenes :
              SegmentStart(scenes, i) = recalcTimestamps(scenes, i)

----------------------------------------------------------------------------
(* SpecTTS: Generator.generateSceneAudio, one call                              *)
(* cmd is one *exec.Cmd built before the retry loop. exec.Cmd.Start refuses a   *)
(* Cmd whose Process is already set ("exec: already started"); Process is set   *)
(* once the operating system has started the program, whatever its exit status. *)

TtsAttempts == 3

\* TTS_COMMAND as Generator.Run hands it over
TtsCommands == {"edge-tts", "tts.py", "mytts"}

\* what the TTS program would do if it were started during attempt k: exit 0,
\* exit with an error, or not start at all (fork or exec fails)
EngineOutcomes == {"ok", "exit", "nostart"}

Engines == [1..TtsAttempts -> EngineOutcomes]

\* the switch on ttsCmd: the argv of the command
BuildCmd(ttsCmd) ==
    CASE ttsCmd = "edge-tts" ->
            <<"edge-tts", "--voice", "en-US-GuyNeural", "--text", "text", "--write-media", "outFile">>
      [] ttsCmd = "tts.py" ->
            <<"python3", ttsCmd, "--text", "text", "--output", "outFile">>
      [] OTHER ->
            <<ttsCmd, "--text", "text", "--output", "outFile">>

TtsStart(ttsCmd, engine) ==
    [pc |-> "build", ttsCmd |-> ttsCmd, engine |-> engine, argv |-> <<>>,
     process |-> FALSE, attempt |-> 0, err |-> "", runs |-> <<>>, slept |-> 0,
     result |-> ""]

InitTTS ==
    /\ tts \in {TtsStart(c, g) : c \in TtsCommands, g \in Engines}
    /\ IdleAM /\ IdleRun /\ IdleFetch /\ IdleProof
    /\ IdleRender /\ IdleWorkers /\ IdleMain /\ IdleCancel /\ IdleClip /\ IdleCall

TtsFrame == UNCHANGED <<amVars, runVars, fetchVars, proofVars,
                        render, workers, pipeline, cx, clipIn, clipOut, callIn, callOut>>

\* cmd = exec.CommandContext(...); attempt := 1
TTSBuild ==
    /\ tts.pc = "build"
    /\ tts' = [tts EXCEPT !.pc = "run", !.argv = BuildCmd(tts.ttsCmd), !.attempt = 1]
    /\ TtsFrame

\* the outcome of cmd.Run() on the one Cmd: what happened, and the error returned
cmdRunFresh(process, outcome) ==
    CASE outcome = "ok" -> [how |-> "executed", process |-> TRUE, err |-> ""]
      [] outcome = "exit" -> [how |-> "executed", process |-> TRUE, err |-> "exit status 1"]
      [] OTHER -> [how |-> "start failed", process |-> process, err |-> "fork/exec"]

cmdRun(process, outcome) ==
    IF process
    THEN [how |-> "refused", process |-> TRUE, err |-> "exec: already started"]
    ELSE cmdRunFresh(process, outcome)

\* err = cmd.Run(); if err == nil { return nil }
TTSRun ==
    /\ tts.pc = "run"
    /\ tts.attempt <= TtsAttempts
    /\ LET r == cmdRun(tts.process, tts.engine[tts.attempt])
       IN  tts' = [tts EXCEPT !.process = r.process,
                              !.err = r.err,
                              !.runs = Append(tts.runs, r.how),
                              !.pc = IF r.err = "" THEN "done" ELSE "sleep",
                              !.result = IF r.err = "" THEN "nil" ELSE ""]
    /\ TtsFrame

\* log.Printf; time.Sleep(attempt * 2s); attempt++
TTSSleep ==
    /\ tts.pc = "sleep"
    /\ tts' = [tts EXCEPT !.slept = tts.slept + 2 * tts.attempt,
                          !.attempt = tts.attempt + 1,
                          !.pc = "run"]
    /\ TtsFrame

\* the loop is over: return err
TTSReturn ==
    /\ tts.pc = "run"
    /\ tts.attempt > TtsAttempts
    /\ tts' = [tts EXCEPT !.pc = "done", !.result = tts.err]
    /\ TtsFrame

NextTTS ==
    \/ TTSBuild
    \/ TTSRun
    \/ TTSSleep
    \/ TTSReturn

SpecTTS == InitTTS /\ [][NextTTS]_vars

\* the first attempt at which the engine would work, 0 if there is none
FirstWorking ==
    IF \E k \in 1..TtsAttempts : tts.engine[k] = "ok"
    THEN CHOOSE k \in 1..TtsAttempts :
            /\ tts.engine[k] = "ok"
            /\ \A j \in 1..(k - 1) : tts.engine[j] # "ok"
    ELSE 0

\* C30: generateSceneAudio runs the TTS command at most 3 times, every attempt is a
\* fresh execution of the command, it returns success as soon as one attempt
\* succeeds (a first failure followed by a working engine yields success), and it
\* returns the last error only after three failed executions.
C30_RetriesAreFreshExecutions ==
    /\ Len(tts.runs) <= TtsAttempts
    /\ \A k \in DOMAIN tts.runs : tts.runs[k] # "refused"
    /\ tts.pc = "done" =>
          IF FirstWorking > 0
          THEN tts.result = "nil" /\ Len(tts.runs) = FirstWorking
          ELSE /\ tts.result \notin {"", "nil"}
               /\ Len(tts.runs) = TtsAttempts

====
